---- MODULE Spec2Model ----
(***************************************************************************)
(* ticketlog: an append-only JSON Lines task log (ticketlog.jsonl), its    *)
(* replay into the live tasks (Storage.load_tasks), the dead-history       *)
(* accounting, the task commands and the dependency graph checks.          *)
(*                                                                         *)
(* Representation.                                                         *)
(*  - A task id "tl-xxx" is a number: its rank in lexical order among the  *)
(*    ids of the model, so that sorting by id is sorting by number.        *)
(*  - A timestamp (an ISO-8601 string of datetime.utcnow()) is a number.   *)
(*  - Optional[T]: None is <<>> and a value v is <<v>>.                    *)
(*  - notes, a string of newline-separated lines, is the sequence of its   *)
(*    lines; the empty string is <<>>.                                     *)
(*  - A line of the log is [kind |-> "blank"] (only white space) or        *)
(*    [kind |-> "json", data |-> d] with d the decoded JSON object, a      *)
(*    function from field names to values.                                 *)
(***************************************************************************)
EXTENDS Integers, Sequences, FiniteSets, TLC

VARIABLES
    fileExists,  \* whether ticketlog.jsonl exists
    log,         \* the lines of ticketlog.jsonl, in file order
    storage,     \* the Storage object of the running process
    cmd,         \* the operation last run
    out,         \* what that operation returned or reported
    clock,       \* the time datetime.utcnow() returns next, in ticks
    config,      \* the Config the process loaded
    stderr,      \* the messages the process wrote to sys.stderr, in order
    cleaner,     \* the clean command run step by step, and its temporary file
    procs        \* the dep add commands run step by step in processes of their own

vars == <<fileExists, log, storage, cmd, out, clock, config, stderr, cleaner, procs>>

----------------------------------------------------------------------------
(* Bounds of the model *)

MaxTime == 4       \* the commands stamp records with the times 1..MaxTime
MaxLoadLen == 3    \* longest log drawn for the storage-level specification

TaskIds == {1, 2}  \* the ids of the model
Times == {1, 2}    \* the timestamps of the records of a drawn log

----------------------------------------------------------------------------
(* models.py: Task *)

None == <<>>
Some(v) == <<v>>

Required == {"id", "title", "created_at", "updated_at"}

Fields ==
    Required \cup {"description", "type", "status", "priority", "assignee",
                   "labels", "closed_at", "dependencies", "notes"}

\* the dataclass defaults of the fields that have one
Defaults ==
    [description |-> "", type |-> "task", status |-> "open", priority |-> 2,
     assignee |-> None, labels |-> <<>>, closed_at |-> None,
     dependencies |-> <<>>, notes |-> <<>>]

\* Task.from_dict: cls(**data), absent keys take the dataclass default
from_dict(data) ==
    [f \in Fields |-> IF f \in DOMAIN data THEN data[f] ELSE Defaults[f]]

\* Task.to_dict: asdict(self), every field of the dataclass
to_dict(task) == [f \in Fields |-> task[f]]

\* Task.create: both timestamps are the same "now"; kwargs override defaults
TaskCreate(id, title, now, kwargs) ==
    [f \in Fields |->
        IF f = "id" THEN id
        ELSE IF f = "title" THEN title
        ELSE IF f \in {"created_at", "updated_at"} THEN now
        ELSE IF f \in DOMAIN kwargs THEN kwargs[f]
        ELSE Defaults[f]]

\* a buggy update_fields: stamps closed_at on every update to closed
update_fields_always_stamps(self, kwargs, now) ==
    LET stamped == "status" \in DOMAIN kwargs /\ kwargs["status"] = "closed"
    IN [f \in Fields |->
          IF f = "updated_at" THEN now
          ELSE IF f = "closed_at" /\ stamped THEN Some(now)
          ELSE IF f \in DOMAIN kwargs THEN kwargs[f]
          ELSE self[f]]

\* a buggy update_fields: stamps closed_at only when it is still None
update_fields_stamps_once(self, kwargs, now) ==
    LET stamped == /\ "status" \in DOMAIN kwargs
                   /\ kwargs["status"] = "closed"
                   /\ self.closed_at = None
    IN [f \in Fields |->
          IF f = "updated_at" THEN now
          ELSE IF f = "closed_at" /\ stamped THEN Some(now)
          ELSE IF f \in DOMAIN kwargs THEN kwargs[f]
          ELSE self[f]]

\* a buggy update_fields: the revision is given another id
update_fields_new_id(self, kwargs, now) ==
    [f \in Fields |->
        IF f = "id" THEN self.id + 1
        ELSE IF f = "updated_at" THEN now
        ELSE IF f = "closed_at" /\ "status" \in DOMAIN kwargs
                /\ kwargs["status"] = "closed" /\ self.status # "closed"
        THEN Some(now)
        ELSE IF f \in DOMAIN kwargs THEN kwargs[f]
        ELSE self[f]]

\* a buggy update_fields: updated_at is copied, not refreshed
update_fields_keeps_updated_at(self, kwargs, now) ==
    [f \in Fields |->
        IF f = "closed_at" /\ "status" \in DOMAIN kwargs
           /\ kwargs["status"] = "closed" /\ self.status # "closed"
        THEN Some(now)
        ELSE IF f \in DOMAIN kwargs THEN kwargs[f]
        ELSE self[f]]

\* an update_fields that clears closed_at when status leaves closed
update_fields_clears_on_reopen(self, kwargs, now) ==
    LET stamped == /\ "status" \in DOMAIN kwargs
                   /\ kwargs["status"] = "closed"
                   /\ self.status # "closed"
        reopened == /\ "status" \in DOMAIN kwargs
                    /\ kwargs["status"] # "closed"
                    /\ self.status = "closed"
    IN [f \in Fields |->
          IF f = "updated_at" THEN now
          ELSE IF f = "closed_at" /\ stamped THEN Some(now)
          ELSE IF f = "closed_at" /\ reopened THEN None
          ELSE IF f \in DOMAIN kwargs THEN kwargs[f]
          ELSE self[f]]

\* Task.update_fields: replace(self, **kwargs, updated_at=now), and
\* closed_at=now when kwargs moves status to closed from another status
update_fields(self, kwargs, now) ==
    LET stamped == /\ "status" \in DOMAIN kwargs
                   /\ kwargs["status"] = "closed"
                   /\ self.status # "closed"
    IN [f \in Fields |->
          IF f = "updated_at" THEN now
          ELSE IF f = "closed_at" /\ stamped THEN Some(now)
          ELSE IF f \in DOMAIN kwargs THEN kwargs[f]
          ELSE self[f]]

----------------------------------------------------------------------------
(* config.py: Config *)

\* Config(): the defaults; the threshold 0.3 is the fraction <<3, 10>>
DefaultConfig == [prefix |-> "tl", dead_history_threshold |-> <<3, 10>>]

\* the clean command before it starts: no task loaded, no temporary file
Idle ==
    [pc |-> "idle", before |-> <<>>, tasks |-> <<>>, original_lines |-> 0,
     removed_lines |-> 0, temp_exists |-> FALSE, temp |-> <<>>]

\* no dep add process under way
NoProcs == <<>>

\* a process with the default configuration that has written nothing to
\* stderr, no clean under way and no dep add process beside it
Quiet ==
    /\ config = DefaultConfig
    /\ stderr = <<>>
    /\ cleaner = Idle
    /\ procs = NoProcs

----------------------------------------------------------------------------
(* storage.py: Storage *)

Blank == [kind |-> "blank"]

\* the line save_task writes: json.dumps(task.to_dict()) + "\n"
JsonLine(task) == [kind |-> "json", data |-> to_dict(task)]

\* Storage.__init__
NewStorage ==
    [total_lines |-> 0, unique_count |-> 0, dead_history_warned |-> FALSE]

\* position of id among the keys of the dict (0 when absent)
IndexOfId(tasks, id) ==
    IF \E i \in 1..Len(tasks) : tasks[i].id = id
    THEN CHOOSE i \in 1..Len(tasks) : tasks[i].id = id
    ELSE 0

\* a buggy tasks_by_id[task.id] = task: an id already present is kept
DictSetKeepsFirst(tasks, task) ==
    IF IndexOfId(tasks, task.id) = 0 THEN Append(tasks, task) ELSE tasks

\* tasks_by_id[task.id] = task on an insertion-ordered dict, held as the
\* sequence of its values: a present key keeps its place and takes the value
DictSet(tasks, task) ==
    LET i == IndexOfId(tasks, task.id)
    IN IF i = 0 THEN Append(tasks, task) ELSE [tasks EXCEPT ![i] = task]

RECURSIVE ReadLines(_, _, _)
\* the loop of load_tasks over the lines of the file
ReadLines(lines, tasks_by_id, total_lines) ==
    IF lines = <<>>
    THEN [tasks |-> tasks_by_id, total_lines |-> total_lines]
    ELSE LET line == Head(lines)
         IN IF line.kind = "blank"
            THEN ReadLines(Tail(lines), tasks_by_id, total_lines)
            ELSE ReadLines(Tail(lines),
                           DictSet(tasks_by_id, from_dict(line.data)),
                           total_lines + 1)

\* a line load_tasks accepts: blank after strip(), or a JSON object that
\* Task(**data) accepts: every field without a default, no unknown key
ValidLine(line) ==
    \/ line.kind = "blank"
    \/ /\ line.kind = "json"
       /\ Required \subseteq DOMAIN line.data
       /\ DOMAIN line.data \subseteq Fields

\* a buggy loader: unknown keys of a record are ignored
load_raises_unless_complete(exists, lines) ==
    /\ exists
    /\ \E i \in 1..Len(lines) :
          /\ lines[i].kind # "blank"
          /\ ~(lines[i].kind = "json" /\ Required \subseteq DOMAIN lines[i].data)

\* load_tasks raises: json.loads or Task.from_dict rejects a line of the
\* file, and the exception leaves load_tasks before it assigns or returns
load_raises(exists, lines) ==
    exists /\ \E i \in 1..Len(lines) : ~ValidLine(lines[i])

\* what main prints for an exception that left a command
LoadError == "Error: invalid record in the log"

\* a command an exception of its first load_tasks has left: nothing written
Raised(lines) ==
    [lines |-> lines, message |-> LoadError, loaded |-> FALSE,
     removed_lines |-> 0, ticks |-> 0, stats |-> <<>>, details |-> <<>>,
     not_found |-> <<>>]

\* Storage.load_tasks when it returns: the tasks returned and the two
\* counters it sets
load_tasks(exists, lines) ==
    IF ~exists
    THEN [tasks |-> <<>>, total_lines |-> 0, unique_count |-> 0]
    ELSE LET r == ReadLines(lines, <<>>, 0)
         IN [tasks |-> r.tasks, total_lines |-> r.total_lines,
             unique_count |-> Len(r.tasks)]

\* the Storage object after load_tasks
Loaded(st, exists, lines) ==
    IF load_raises(exists, lines) THEN st
    ELSE LET r == load_tasks(exists, lines)
         IN [st EXCEPT !.total_lines = r.total_lines,
                       !.unique_count = r.unique_count]

\* a buggy ratio: the share of live lines instead of dead ones
live_ratio(st) ==
    IF st.total_lines = 0 THEN <<0, 1>>
    ELSE <<st.unique_count, st.total_lines>>

\* Storage.dead_history_ratio, a fraction <<numerator, denominator>>
dead_history_ratio(st) ==
    IF st.total_lines = 0 THEN <<0, 1>>
    ELSE <<st.total_lines - st.unique_count, st.total_lines>>

\* a ratio is above a threshold, both fractions <<numerator, denominator>>
\* with positive denominators
AtLeast(ratio, threshold) == ratio[1] * threshold[2] >= threshold[1] * ratio[2]

\* ratio > self.config.dead_history_threshold
Exceeds(ratio, threshold) == ratio[1] * threshold[2] > threshold[1] * ratio[2]

\* a buggy check: the warning is printed and the flag is left as it was
check_dead_history_forgets(st, cfg) ==
    IF st.dead_history_warned THEN [storage |-> st, warned |-> FALSE]
    ELSE IF Exceeds(dead_history_ratio(st), cfg.dead_history_threshold)
    THEN [storage |-> st, warned |-> TRUE]
    ELSE [storage |-> st, warned |-> FALSE]

\* Storage.check_dead_history: the Storage object after the call and
\* whether the warning was printed to stderr
check_dead_history(st, cfg) ==
    IF st.dead_history_warned THEN [storage |-> st, warned |-> FALSE]
    ELSE IF Exceeds(dead_history_ratio(st), cfg.dead_history_threshold)
    THEN [storage |-> [st EXCEPT !.dead_history_warned = TRUE],
          warned |-> TRUE]
    ELSE [storage |-> st, warned |-> FALSE]

\* a buggy save: the file is opened with "w" and holds the one record
save_task_truncates(lines, task) == <<JsonLine(task)>>

\* Storage.save_task: open(filepath, "a") creates the file and appends
save_task(lines, task) == Append(lines, JsonLine(task))

\* Storage.get_task_by_id: the first task of load_tasks with that id, or None
get_task_by_id(exists, lines, id) ==
    LET tasks == load_tasks(exists, lines).tasks
        i == IndexOfId(tasks, id)
    IN IF i = 0 THEN None ELSE Some(tasks[i])

----------------------------------------------------------------------------
(* commands/clean.py *)

\* sum(1 for line in f if line.strip())
RECURSIVE CountNonBlank(_)
CountNonBlank(lines) ==
    IF lines = <<>> THEN 0
    ELSE (IF Head(lines).kind = "blank" THEN 0 ELSE 1)
         + CountNonBlank(Tail(lines))

\* tasks without its element at index i
RemoveAt(tasks, i) ==
    [k \in 1..(Len(tasks) - 1) |-> IF k < i THEN tasks[k] ELSE tasks[k + 1]]

\* a buggy sort: the tasks stay in the order load_tasks returned them
SortByIdKeepsOrder(tasks) == tasks

RECURSIVE SortById(_)
\* sorted(tasks, key=lambda t: t.id), ids ascending
SortById(tasks) ==
    IF tasks = <<>> THEN <<>>
    ELSE LET i == CHOOSE i \in 1..Len(tasks) :
                      \A k \in 1..Len(tasks) :
                          /\ tasks[i].id <= tasks[k].id
                          /\ (tasks[k].id = tasks[i].id => i <= k)
         IN <<tasks[i]>> \o SortById(RemoveAt(tasks, i))

\* a buggy write loop: the last task of the sorted list is not written
WriteTempDropsLast(tasks) ==
    LET sorted == SortById(tasks)
    IN [i \in 1..(Len(sorted) - 1) |-> JsonLine(sorted[i])]

\* a buggy write loop: every task is written twice
WriteTempTwice(tasks) ==
    LET sorted == SortById(tasks)
    IN [i \in 1..(2 * Len(sorted)) |-> JsonLine(sorted[(i + 1) \div 2])]

\* the lines written to the temporary file, one per task, sorted by id
WriteTemp(tasks) ==
    LET sorted == SortById(tasks)
    IN [i \in 1..Len(sorted) |-> JsonLine(sorted[i])]

\* a buggy check: one removable line is taken for a clean log
AlreadyCleanOffByOne(removed_lines) == removed_lines <= 1

\* if removed_lines == 0: the log is reported clean and left as it is
AlreadyClean(removed_lines) == removed_lines = 0

\* clean_log: the log file after the command and the result it reports
clean_log(exists, lines) ==
    IF load_raises(exists, lines) THEN Raised(lines) ELSE
    LET tasks == load_tasks(exists, lines).tasks
    IN IF tasks = <<>>
       THEN [lines |-> lines, message |-> "No tasks to clean",
             removed_lines |-> 0]
       ELSE LET original_lines == CountNonBlank(lines)
                new_lines == Len(tasks)
                removed_lines == original_lines - new_lines
            IN IF AlreadyClean(removed_lines)
               THEN [lines |-> lines, message |-> "Log already clean",
                     removed_lines |-> 0]
               ELSE [lines |-> WriteTemp(tasks), message |-> "Cleaned log",
                     removed_lines |-> removed_lines]

\* the clean command, run to completion in a process of its own
CleanLog ==
    LET r == clean_log(fileExists, log)
    IN /\ log' = r.lines
       /\ storage' = Loaded(NewStorage, fileExists, log)
       /\ cmd' = [name |-> "clean"]
       /\ out' = [message |-> r.message, removed_lines |-> r.removed_lines]
       /\ UNCHANGED <<fileExists, clock, config, stderr, cleaner, procs>>

----------------------------------------------------------------------------
(* The storage-level specification: any log file, then load_tasks,         *)
(* save_task and clean in any order on it.                                 *)

\* a record as the tests write it: only the four required keys
MinimalDict(id, title, ts) ==
    [id |-> id, title |-> title, created_at |-> 1, updated_at |-> ts]

StoreLines ==
    {Blank} \cup
    {[kind |-> "json", data |-> MinimalDict(id, title, ts)] :
        id \in TaskIds, title \in {"v1", "v2"}, ts \in Times}

StoreTasks ==
    {TaskCreate(id, "v3", ts, <<>>) : id \in TaskIds, ts \in Times}

InitStore ==
    /\ fileExists \in BOOLEAN
    /\ log \in UNION {[1..n -> StoreLines] : n \in 0..MaxLoadLen}
    /\ (~fileExists => log = <<>>)
    /\ storage = NewStorage
    /\ cmd = [name |-> "init"]
    /\ out = <<>>
    /\ clock = 1
    /\ Quiet

\* storage.load_tasks() on the Storage object of the process
LoadTasks ==
    /\ storage' = Loaded(storage, fileExists, log)
    /\ cmd' = [name |-> "load_tasks", raised |-> load_raises(fileExists, log)]
    /\ out' = IF load_raises(fileExists, log) THEN <<>>
              ELSE load_tasks(fileExists, log).tasks
    /\ UNCHANGED <<fileExists, log, clock, config, stderr, cleaner, procs>>

\* storage.save_task(task) on the Storage object of the process
SaveTask ==
    \E task \in StoreTasks :
        /\ Len(log) < MaxLoadLen
        /\ log' = save_task(log, task)
        /\ fileExists' = TRUE
        /\ cmd' = [name |-> "save_task"]
        /\ out' = <<>>
        /\ UNCHANGED <<storage, clock, config, stderr, cleaner, procs>>

NextStore == LoadTasks \/ SaveTask \/ CleanLog

SpecStore == InitStore /\ [][NextStore]_vars

----------------------------------------------------------------------------
(* One process, its Storage object and its stderr: loads, saves and calls  *)
(* of check_dead_history in any order, under a configured threshold.       *)

\* the thresholds configured: the default 0.3, and two that a ratio of a
\* short log can equal
Thresholds == {<<3, 10>>, <<1, 3>>, <<1, 2>>}

InitWarn ==
    /\ fileExists \in BOOLEAN
    /\ log \in UNION {[1..n -> StoreLines] : n \in 0..MaxLoadLen}
    /\ (~fileExists => log = <<>>)
    /\ storage = NewStorage
    /\ cmd = [name |-> "init"]
    /\ out = <<>>
    /\ clock = 1
    /\ config \in {[DefaultConfig EXCEPT !.dead_history_threshold = t] :
                      t \in Thresholds}
    /\ stderr = <<>>
    /\ cleaner = Idle
    /\ procs = NoProcs

\* storage.check_dead_history() on the Storage object of the process
CheckDeadHistory ==
    LET r == check_dead_history(storage, config)
    IN /\ storage' = r.storage
       /\ stderr' = IF r.warned THEN Append(stderr, "dead history") ELSE stderr
       /\ cmd' = [name |-> "check_dead_history"]
       /\ out' = [warned |-> r.warned]
       /\ UNCHANGED <<fileExists, log, clock, config, cleaner, procs>>

NextWarn == LoadTasks \/ SaveTask \/ CheckDeadHistory

SpecWarn == InitWarn /\ [][NextWarn]_vars

----------------------------------------------------------------------------
(* commands/clean.py, one step at a time: the load, the count of the       *)
(* lines, the temporary file, its records, the flush and fsync, and the    *)
(* rename; with a reader or a writer of the log in another process.        *)
(* cleaner.temp is what was written to the temporary file, also after the  *)
(* file is gone (cleaner.temp_exists tells whether it is there).           *)
(* cleaner.before is the content the log had when clean loaded it: the     *)
(* command does not keep it, the statements about the command refer to it. *)

\* a buggy write: the records go to the log file itself, truncated first
WriteStepInPlace(c, lines) ==
    LET record == WriteTemp(c.tasks)[Len(c.temp) + 1]
    IN [cleaner |-> [c EXCEPT !.temp = Append(@, record)],
        log |-> Append(IF c.temp = <<>> THEN <<>> ELSE lines, record)]

\* f.write(json.dumps(task.to_dict()) + "\n") of the next task, on the
\* temporary file: the cleaner and the log file after it
WriteStep(c, lines) ==
    LET record == WriteTemp(c.tasks)[Len(c.temp) + 1]
    IN [cleaner |-> [c EXCEPT !.temp = Append(@, record)],
        log |-> lines]

\* a buggy rename: the lines appended to the log since the load are kept
ReplaceKeepsAppended(c, lines) ==
    c.temp \o SubSeq(lines, Len(c.before) + 1, Len(lines))

\* os.replace(temp_path, storage.filepath): the log file after the rename
Replace(c, lines) == c.temp

\* a buggy handler: the exception is raised again with the file left
CleanupLeavesTemp(c) == [c EXCEPT !.pc = "failed"]

\* except Exception: unlink the temporary file if it exists, raise again
Cleanup(c) ==
    [c EXCEPT !.pc = "failed", !.temp_exists = FALSE]

\* what a step of clean leaves alone
CleanFrame == UNCHANGED <<clock, config, stderr, procs>>

\* tasks = storage.load_tasks(); if not tasks: report and return
CleanLoad ==
    /\ cleaner.pc = "idle"
    /\ LET tasks == load_tasks(fileExists, log).tasks
       IN /\ cleaner' = [cleaner EXCEPT
                            !.pc = IF tasks = <<>> THEN "done" ELSE "loaded",
                            !.before = log,
                            !.tasks = tasks]
          /\ out' = IF tasks = <<>>
                    THEN [message |-> "No tasks to clean", removed_lines |-> 0]
                    ELSE <<>>
    /\ storage' = Loaded(NewStorage, fileExists, log)
    /\ cmd' = [name |-> "clean step", step |-> "load"]
    /\ UNCHANGED <<fileExists, log>>
    /\ CleanFrame

\* the count of the lines of the file as it is now, and the early return
CleanCount ==
    /\ cleaner.pc = "loaded"
    /\ LET original_lines == CountNonBlank(log)
           removed_lines == original_lines - Len(cleaner.tasks)
       IN /\ cleaner' = [cleaner EXCEPT
                            !.pc = IF AlreadyClean(removed_lines)
                                   THEN "done" ELSE "counted",
                            !.original_lines = original_lines,
                            !.removed_lines = removed_lines]
          /\ out' = IF AlreadyClean(removed_lines)
                    THEN [message |-> "Log already clean", removed_lines |-> 0]
                    ELSE <<>>
    /\ cmd' = [name |-> "clean step", step |-> "count"]
    /\ UNCHANGED <<fileExists, log, storage>>
    /\ CleanFrame

\* tempfile.mkstemp in the directory of the log
CleanMkstemp ==
    /\ cleaner.pc = "counted"
    /\ cleaner' = [cleaner EXCEPT !.pc = "writing", !.temp_exists = TRUE,
                                  !.temp = <<>>]
    /\ cmd' = [name |-> "clean step", step |-> "mkstemp"]
    /\ UNCHANGED <<fileExists, log, storage, out>>
    /\ CleanFrame

\* mkstemp raises: it is outside the try, no file was created
CleanMkstempFails ==
    /\ cleaner.pc = "counted"
    /\ cleaner' = [cleaner EXCEPT !.pc = "failed"]
    /\ cmd' = [name |-> "clean step", step |-> "mkstemp fails"]
    /\ UNCHANGED <<fileExists, log, storage, out>>
    /\ CleanFrame

\* one turn of the loop that writes the sorted tasks
CleanWrite ==
    /\ cleaner.pc = "writing"
    /\ Len(cleaner.temp) < Len(cleaner.tasks)
    /\ LET r == WriteStep(cleaner, log)
       IN /\ cleaner' = r.cleaner
          /\ log' = r.log
    /\ cmd' = [name |-> "clean step", step |-> "write"]
    /\ UNCHANGED <<fileExists, storage, out>>
    /\ CleanFrame

\* f.flush(), os.fsync(f.fileno()) and the close at the end of the with
CleanSync ==
    /\ cleaner.pc = "writing"
    /\ Len(cleaner.temp) = Len(cleaner.tasks)
    /\ cleaner' = [cleaner EXCEPT !.pc = "synced"]
    /\ cmd' = [name |-> "clean step", step |-> "fsync"]
    /\ UNCHANGED <<fileExists, log, storage, out>>
    /\ CleanFrame

\* the rename over the log, then the report
CleanReplace ==
    /\ cleaner.pc = "synced"
    /\ log' = Replace(cleaner, log)
    /\ fileExists' = TRUE
    /\ cleaner' = [cleaner EXCEPT !.pc = "done", !.temp_exists = FALSE]
    /\ out' = [message |-> "Cleaned log",
               removed_lines |-> cleaner.removed_lines]
    /\ cmd' = [name |-> "clean step", step |-> "replace"]
    /\ UNCHANGED storage
    /\ CleanFrame

\* an error of fdopen, write, flush, fsync or the rename: the handler runs
CleanFails ==
    /\ cleaner.pc \in {"writing", "synced"}
    /\ cleaner' = Cleanup(cleaner)
    /\ cmd' = [name |-> "clean step", step |-> "fails"]
    /\ UNCHANGED <<fileExists, log, storage, out>>
    /\ CleanFrame

CleanSteps ==
    \/ CleanLoad
    \/ CleanCount
    \/ CleanMkstemp
    \/ CleanMkstempFails
    \/ CleanWrite
    \/ CleanSync
    \/ CleanFails
    \/ CleanReplace

\* another process reads the log: the lines it finds, the tasks it loads
ReaderLoad ==
    /\ cmd' = [name |-> "reader"]
    /\ out' = [lines |-> log, tasks |-> load_tasks(fileExists, log).tasks]
    /\ UNCHANGED <<fileExists, log, storage, clock, config, stderr, cleaner, procs>>

\* another process saves a revision of a task: the time of the revision is
\* the clock's, so every record appended differs from every other record
WriterAppend ==
    \E id \in TaskIds :
        /\ clock <= MaxTime
        /\ log' = save_task(log, TaskCreate(id, "v3", clock, <<>>))
        /\ fileExists' = TRUE
        /\ clock' = clock + 1
        /\ cmd' = [name |-> "writer"]
        /\ out' = <<>>
        /\ UNCHANGED <<storage, config, stderr, cleaner, procs>>

NextClean == CleanSteps \/ ReaderLoad

SpecClean == InitStore /\ [][NextClean]_vars

\* the lines of the log the race starts from: blank lines and one revision
\* of each task
RaceLines ==
    {Blank} \cup
    {[kind |-> "json", data |-> MinimalDict(id, "v1", 1)] : id \in TaskIds}

InitRace ==
    /\ fileExists = TRUE
    /\ log \in UNION {[1..n -> RaceLines] : n \in 0..MaxLoadLen}
    /\ storage = NewStorage
    /\ cmd = [name |-> "init"]
    /\ out = <<>>
    /\ clock = 1
    /\ Quiet

NextRace == CleanSteps \/ WriterAppend

SpecRace == InitRace /\ [][NextRace]_vars

----------------------------------------------------------------------------
(* commands/create.py, utils.py, storage.py: create *)

Attempts == 10

\* a buggy generator: the first candidate is returned unchecked
generate_random_id_unchecked(existing_ids, draws) == Some(draws[1])

\* a buggy generator: one candidate more is tried
generate_random_id_one_more(existing_ids, draws) ==
    IF \E i \in 1..(Attempts + 1) : draws[i] \notin existing_ids
    THEN Some(draws[CHOOSE i \in 1..(Attempts + 1) :
                        /\ draws[i] \notin existing_ids
                        /\ \A j \in 1..(i - 1) : draws[j] \in existing_ids])
    ELSE None

\* Storage._generate_random_id: the first of the candidates drawn that is
\* not an existing id, None when all of them collide (ValueError)
generate_random_id(existing_ids, draws) ==
    IF \E i \in 1..Attempts : draws[i] \notin existing_ids
    THEN Some(draws[CHOOSE i \in 1..Attempts :
                        /\ draws[i] \notin existing_ids
                        /\ \A j \in 1..(i - 1) : draws[j] \in existing_ids])
    ELSE None

\* Storage.get_next_id
get_next_id(exists, lines, draws) ==
    LET tasks == load_tasks(exists, lines).tasks
    IN generate_random_id({tasks[k].id : k \in 1..Len(tasks)}, draws)

\* create_task: title and the options as given, a fresh id, one record saved
create_task(exists, lines, args, draws, now) ==
    IF load_raises(exists, lines) THEN Raised(lines) ELSE
    LET task_id == get_next_id(exists, lines, draws)
    IN IF task_id = None
       THEN [lines |-> lines, message |-> "Error: Failed to generate unique ID"]
       ELSE [lines |-> save_task(lines,
                          TaskCreate(task_id[1], args.title, now,
                              [description |-> args.description,
                               type |-> args.type,
                               priority |-> args.priority,
                               assignee |-> args.assignee,
                               labels |-> args.labels])),
             message |-> "Created task"]

----------------------------------------------------------------------------
(* commands/update.py, commands/start.py *)

\* the options of update that are copied into the update dict as given
CopiedOptions ==
    {"title", "description", "status", "type", "priority", "assignee", "notes"}

\* set(task.labels) with the labels of add_label / remove_label applied
SeqToSet(seq) == {seq[i] : i \in 1..Len(seq)}

RECURSIVE SetToSeq(_)
\* list(a_set): one enumeration of the set
SetToSeq(set) ==
    IF set = {} THEN <<>>
    ELSE LET x == CHOOSE x \in set : TRUE
         IN <<x>> \o SetToSeq(set \ {x})

\* utils.parse_priority on the spellings of the model: the priority, or
\* None for what raises ValueError
parse_priority(value) ==
    IF value = "3" THEN Some(3)
    ELSE IF value \in {"P1", "p1"} THEN Some(1)
    ELSE None

\* the update dict of update_task; the remove_label block, when it runs,
\* starts again from task.labels and overwrites what add_label put there
UpdateDict(task, opts) ==
    LET copied == [f \in (DOMAIN opts) \cap CopiedOptions |-> opts[f]]
        added == SetToSeq(SeqToSet(task.labels) \cup SeqToSet(opts["add_label"]))
        removed == SetToSeq(SeqToSet(task.labels) \ SeqToSet(opts["remove_label"]))
        has_add == "add_label" \in DOMAIN opts /\ opts["add_label"] # <<>>
        has_rem == "remove_label" \in DOMAIN opts /\ opts["remove_label"] # <<>>
    IN [f \in DOMAIN copied \cup (IF has_add \/ has_rem THEN {"labels"} ELSE {}) |->
          IF f = "labels" THEN (IF has_rem THEN removed ELSE added)
          ELSE IF f = "priority" THEN parse_priority(copied[f])[1]
          ELSE copied[f]]

\* an update that saves a task under the id when there is none
update_task_saves_unknown(exists, lines, id, opts, now) ==
    IF load_raises(exists, lines) THEN Raised(lines) ELSE
    LET task == get_task_by_id(exists, lines, id)
    IN IF task = None
       THEN [lines |-> save_task(lines, TaskCreate(id, "t", now, <<>>)),
             message |-> "Error: Task not found"]
       ELSE IF "priority" \in DOMAIN opts /\ parse_priority(opts["priority"]) = None
       THEN [lines |-> lines, message |-> "Error: Invalid priority"]
       ELSE [lines |-> save_task(lines,
                          update_fields(task[1], UpdateDict(task[1], opts), now)),
             message |-> "Updated task"]

\* update_task; a priority that parse_priority rejects ends the command
\* before anything is saved
update_task(exists, lines, id, opts, now) ==
    IF load_raises(exists, lines) THEN Raised(lines) ELSE
    LET task == get_task_by_id(exists, lines, id)
    IN IF task = None
       THEN [lines |-> lines, message |-> "Error: Task not found"]
       ELSE IF "priority" \in DOMAIN opts /\ parse_priority(opts["priority"]) = None
       THEN [lines |-> lines, message |-> "Error: Invalid priority"]
       ELSE [lines |-> save_task(lines,
                          update_fields(task[1], UpdateDict(task[1], opts), now)),
             message |-> "Updated task"]

\* start_task: status in_progress, and the assignee when one is given
start_task(exists, lines, id, assignee, now) ==
    IF load_raises(exists, lines) THEN Raised(lines) ELSE
    LET task == get_task_by_id(exists, lines, id)
        updates == IF assignee = None
                   THEN [status |-> "in_progress"]
                   ELSE [status |-> "in_progress", assignee |-> assignee]
    IN IF task = None
       THEN [lines |-> lines, message |-> "Error: Task not found"]
       ELSE [lines |-> save_task(lines, update_fields(task[1], updates, now)),
             message |-> "Started task"]

----------------------------------------------------------------------------
(* commands/close.py, commands/cancel.py *)

\* a buggy filter: the tasks that are not closed
RECURSIVE InReviewOrOpen(_)
InReviewOrOpen(tasks) ==
    IF tasks = <<>> THEN <<>>
    ELSE (IF Head(tasks).status # "closed" THEN <<Head(tasks)>> ELSE <<>>)
         \o InReviewOrOpen(Tail(tasks))

\* [t for t in all_tasks if t.status == "to_review"]
RECURSIVE InReview(_)
InReview(tasks) ==
    IF tasks = <<>> THEN <<>>
    ELSE (IF Head(tasks).status = "to_review" THEN <<Head(tasks)>> ELSE <<>>)
         \o InReview(Tail(tasks))

\* a buggy loop over args.ids: it ends at the first id that is not found
RECURSIVE ResolveIdsUntilMissing(_, _, _)
ResolveIdsUntilMissing(exists, lines, ids) ==
    IF ids = <<>> THEN <<>>
    ELSE LET task == get_task_by_id(exists, lines, Head(ids))
         IN IF task = None THEN <<>>
            ELSE task \o ResolveIdsUntilMissing(exists, lines, Tail(ids))

\* the ids of args.ids reported as not found, in the order of the loop
RECURSIVE NotFound(_, _, _)
NotFound(exists, lines, ids) ==
    IF ids = <<>> THEN <<>>
    ELSE (IF get_task_by_id(exists, lines, Head(ids)) = None
          THEN <<Head(ids)>> ELSE <<>>)
         \o NotFound(exists, lines, Tail(ids))

\* the loop over args.ids: the tasks found, each as loaded at that moment;
\* an id that is not found is reported and skipped
RECURSIVE ResolveIds(_, _, _)
ResolveIds(exists, lines, ids) ==
    IF ids = <<>> THEN <<>>
    ELSE LET task == get_task_by_id(exists, lines, Head(ids))
         IN (IF task = None THEN <<>> ELSE task)
            \o ResolveIds(exists, lines, Tail(ids))

\* the closing loop: one revision saved per task; each update_fields call
\* reads the clock, so the k-th revision is stamped now + k - 1
RECURSIVE CloseAll(_, _, _)
CloseAll(lines, tasks, now) ==
    IF tasks = <<>> THEN lines
    ELSE CloseAll(save_task(lines,
                      update_fields(Head(tasks), [status |-> "closed"], now)),
                  Tail(tasks), now + 1)

\* tasks_to_close / tasks_to_cancel: the tasks in to_review of the log, or
\* the tasks the ids resolve to
TasksToClose(exists, lines, review, ids) ==
    IF review THEN InReview(load_tasks(exists, lines).tasks)
    ELSE ResolveIds(exists, lines, ids)

\* a buggy close_tasks: --review wins over ids given with it
close_tasks_review_wins(exists, lines, review, ids, now) ==
    IF ~review /\ ids = <<>>
    THEN [lines |-> lines, message |-> "Error: Must specify either",
          loaded |-> FALSE, not_found |-> <<>>]
    ELSE IF load_raises(exists, lines) THEN Raised(lines)
    ELSE LET tasks_to_close == TasksToClose(exists, lines, review, ids)
         IN IF review /\ tasks_to_close = <<>>
            THEN [lines |-> lines, message |-> "No tasks found in to_review status",
                  loaded |-> TRUE, not_found |-> <<>>]
            ELSE [lines |-> CloseAll(lines, tasks_to_close, now),
                  message |-> "Closed", loaded |-> TRUE,
                  not_found |-> IF review THEN <<>>
                                ELSE NotFound(exists, lines, ids)]

\* close_tasks
close_tasks(exists, lines, review, ids, now) ==
    IF review /\ ids # <<>>
    THEN [lines |-> lines, message |-> "Error: Cannot specify both",
          loaded |-> FALSE, not_found |-> <<>>]
    ELSE IF ~review /\ ids = <<>>
    THEN [lines |-> lines, message |-> "Error: Must specify either",
          loaded |-> FALSE, not_found |-> <<>>]
    ELSE IF load_raises(exists, lines) THEN Raised(lines)
    ELSE LET tasks_to_close == TasksToClose(exists, lines, review, ids)
         IN IF review /\ tasks_to_close = <<>>
            THEN [lines |-> lines, message |-> "No tasks found in to_review status",
                  loaded |-> TRUE, not_found |-> <<>>]
            ELSE [lines |-> CloseAll(lines, tasks_to_close, now),
                  message |-> "Closed", loaded |-> TRUE,
                  not_found |-> IF review THEN <<>>
                                ELSE NotFound(exists, lines, ids)]

\* the note of cancel: "Canceled", or "Canceled, with reason: X"
CancelNote(reason) ==
    IF reason # None /\ reason # Some("")
    THEN <<"Canceled, with reason: ", reason[1]>>
    ELSE <<"Canceled">>

\* a buggy cancelling loop: the note replaces the notes the task has
RECURSIVE CancelAllReplacesNotes(_, _, _, _)
CancelAllReplacesNotes(lines, tasks, cancel_note, now) ==
    IF tasks = <<>> THEN lines
    ELSE CancelAllReplacesNotes(
             save_task(lines,
                 update_fields(Head(tasks),
                     [status |-> "closed", notes |-> <<cancel_note>>], now)),
             Tail(tasks), cancel_note, now + 1)

\* the cancelling loop: the note goes after the notes the task has
RECURSIVE CancelAll(_, _, _, _)
CancelAll(lines, tasks, cancel_note, now) ==
    IF tasks = <<>> THEN lines
    ELSE LET task == Head(tasks)
             new_notes == IF task.notes # <<>>
                          THEN Append(task.notes, cancel_note)
                          ELSE <<cancel_note>>
         IN CancelAll(save_task(lines,
                          update_fields(task,
                              [status |-> "closed", notes |-> new_notes],
                              now)),
                      Tail(tasks), cancel_note, now + 1)

\* cancel_tasks
cancel_tasks(exists, lines, review, ids, reason, now) ==
    IF review /\ ids # <<>>
    THEN [lines |-> lines, message |-> "Error: Cannot specify both",
          loaded |-> FALSE, not_found |-> <<>>]
    ELSE IF ~review /\ ids = <<>>
    THEN [lines |-> lines, message |-> "Error: Must specify either",
          loaded |-> FALSE, not_found |-> <<>>]
    ELSE IF load_raises(exists, lines) THEN Raised(lines)
    ELSE LET tasks_to_cancel == TasksToClose(exists, lines, review, ids)
         IN IF review /\ tasks_to_cancel = <<>>
            THEN [lines |-> lines, message |-> "No tasks found in to_review status",
                  loaded |-> TRUE, not_found |-> <<>>]
            ELSE [lines |-> CancelAll(lines, tasks_to_cancel, CancelNote(reason), now),
                  message |-> "Canceled", loaded |-> TRUE,
                  not_found |-> IF review THEN <<>>
                                ELSE NotFound(exists, lines, ids)]

----------------------------------------------------------------------------
(* commands/dep.py *)

\* the ids of a list of tasks
TaskIdsOf(tasks) == {tasks[k].id : k \in 1..Len(tasks)}

\* deps = {t.id: set(t.dependencies)}, then deps[task_id].add(depends_on)
DepsWithEdge(task_id, depends_on, all_tasks) ==
    [n \in TaskIdsOf(all_tasks) \cup {task_id} |->
        (IF n \in TaskIdsOf(all_tasks)
         THEN SeqToSet(all_tasks[IndexOfId(all_tasks, n)].dependencies)
         ELSE {})
        \cup (IF n = task_id THEN {depends_on} ELSE {})]

\* the elements of a set in the order the iteration visits them: Python
\* fixes no order for a set, so the order is a parameter (a sequence that
\* lists every id once)
RECURSIVE InOrder(_, _)
InOrder(set, order) ==
    IF order = <<>> THEN <<>>
    ELSE (IF Head(order) \in set THEN <<Head(order)>> ELSE <<>>)
         \o InOrder(set, Tail(order))

\* deps.get(node, [])
Neighbors(deps, node) == IF node \in DOMAIN deps THEN deps[node] ELSE {}

RECURSIVE has_cycle(_, _, _, _)
RECURSIVE VisitNeighbors(_, _, _, _)

\* the for loop of has_cycle over the neighbours left to visit; st holds
\* the visited and rec_stack sets the closure shares, and found, the result
VisitNeighbors(deps, order, neighbors, st) ==
    IF neighbors = <<>> THEN st
    ELSE LET neighbor == Head(neighbors)
         IN IF neighbor \notin st.visited
            THEN LET r == has_cycle(deps, order, neighbor, st)
                 IN IF r.found THEN r
                    ELSE VisitNeighbors(deps, order, Tail(neighbors), r)
            ELSE IF neighbor \in st.rec_stack
            THEN [st EXCEPT !.found = TRUE]
            ELSE VisitNeighbors(deps, order, Tail(neighbors), st)

\* has_cycle(node): returns True leaving node on rec_stack, or removes it
has_cycle(deps, order, node, st) ==
    LET entered == [found |-> FALSE,
                    visited |-> st.visited \cup {node},
                    rec_stack |-> st.rec_stack \cup {node}]
        r == VisitNeighbors(deps, order,
                            InOrder(Neighbors(deps, node), order), entered)
    IN IF r.found THEN r ELSE [r EXCEPT !.rec_stack = @ \ {node}]

\* a buggy detect_cycle: only the self-loop is seen
detect_self_loop_only(task_id, depends_on, all_tasks, order) ==
    task_id = depends_on

\* a check that looks one edge deep only: the edge is a self-loop, or the
\* task depended on depends on the task
detect_cycle_one_edge_deep(task_id, depends_on, all_tasks, order) ==
    \/ task_id = depends_on
    \/ \E k \in 1..Len(all_tasks) :
          /\ all_tasks[k].id = depends_on
          /\ task_id \in SeqToSet(all_tasks[k].dependencies)

\* detect_cycle
detect_cycle(task_id, depends_on, all_tasks, order) ==
    has_cycle(DepsWithEdge(task_id, depends_on, all_tasks), order, task_id,
              [found |-> FALSE, visited |-> {}, rec_stack |-> {}]).found

\* [d for d in task.dependencies if d != depends_on_id]
RECURSIVE Without(_, _)
Without(seq, x) ==
    IF seq = <<>> THEN <<>>
    ELSE (IF Head(seq) = x THEN <<>> ELSE <<Head(seq)>>) \o Without(Tail(seq), x)

\* a buggy add_dependency: the cycle check is reported but does not return
add_dependency_ignores_cycle(exists, lines, task_id, depends_on_id, order, now) ==
    LET task == get_task_by_id(exists, lines, task_id)
        depends_on == get_task_by_id(exists, lines, depends_on_id)
    IN IF task = None \/ depends_on = None
       THEN [lines |-> lines, message |-> "Error: Task not found"]
       ELSE IF depends_on_id \notin SeqToSet(task[1].dependencies)
       THEN [lines |-> save_task(lines,
                          update_fields(task[1],
                              [dependencies |->
                                  Append(task[1].dependencies, depends_on_id)],
                              now)),
             message |-> "Added dependency"]
       ELSE [lines |-> lines, message |-> "Dependency already exists"]

\* an add_dependency that does not look up the task depended on
add_dependency_on_unknown(exists, lines, task_id, depends_on_id, order, now) ==
    IF load_raises(exists, lines) THEN Raised(lines) ELSE
    LET task == get_task_by_id(exists, lines, task_id)
        all_tasks == load_tasks(exists, lines).tasks
    IN IF task = None
       THEN [lines |-> lines, message |-> "Error: Task not found"]
       ELSE IF detect_cycle(task_id, depends_on_id, all_tasks, order)
       THEN [lines |-> lines,
             message |-> "Error: Adding this dependency would create a cycle"]
       ELSE IF depends_on_id \notin SeqToSet(task[1].dependencies)
       THEN [lines |-> save_task(lines,
                          update_fields(task[1],
                              [dependencies |->
                                  Append(task[1].dependencies, depends_on_id)],
                              now)),
             message |-> "Added dependency"]
       ELSE [lines |-> lines, message |-> "Dependency already exists"]

\* add_dependency
add_dependency(exists, lines, task_id, depends_on_id, order, now) ==
    IF load_raises(exists, lines) THEN Raised(lines) ELSE
    LET task == get_task_by_id(exists, lines, task_id)
        depends_on == get_task_by_id(exists, lines, depends_on_id)
        all_tasks == load_tasks(exists, lines).tasks
    IN IF task = None
       THEN [lines |-> lines, message |-> "Error: Task not found"]
       ELSE IF depends_on = None
       THEN [lines |-> lines, message |-> "Error: Task not found"]
       ELSE IF detect_cycle(task_id, depends_on_id, all_tasks, order)
       THEN [lines |-> lines,
             message |-> "Error: Adding this dependency would create a cycle"]
       ELSE IF depends_on_id \notin SeqToSet(task[1].dependencies)
       THEN [lines |-> save_task(lines,
                          update_fields(task[1],
                              [dependencies |->
                                  Append(task[1].dependencies, depends_on_id)],
                              now)),
             message |-> "Added dependency"]
       ELSE [lines |-> lines, message |-> "Dependency already exists"]

\* a buggy remove_dependency: a revision is saved also when the edge is absent
remove_dependency_always_saves(exists, lines, task_id, depends_on_id, now) ==
    LET task == get_task_by_id(exists, lines, task_id)
    IN IF task = None
       THEN [lines |-> lines, message |-> "Error: Task not found"]
       ELSE [lines |-> save_task(lines,
                          update_fields(task[1],
                              [dependencies |->
                                  Without(task[1].dependencies, depends_on_id)],
                              now)),
             message |-> "Removed dependency"]

\* remove_dependency
remove_dependency(exists, lines, task_id, depends_on_id, now) ==
    IF load_raises(exists, lines) THEN Raised(lines) ELSE
    LET task == get_task_by_id(exists, lines, task_id)
    IN IF task = None
       THEN [lines |-> lines, message |-> "Error: Task not found"]
       ELSE IF depends_on_id \in SeqToSet(task[1].dependencies)
       THEN [lines |-> save_task(lines,
                          update_fields(task[1],
                              [dependencies |->
                                  Without(task[1].dependencies, depends_on_id)],
                              now)),
             message |-> "Removed dependency"]
       ELSE [lines |-> lines, message |-> "Dependency does not exist"]

\* the query of list_dependencies leaving out the tasks that are closed
blocked_by_this_unless_closed(task_id, all_tasks) ==
    SelectSeq(all_tasks, LAMBDA t : /\ task_id \in SeqToSet(t.dependencies)
                                    /\ t.status # "closed")

\* blocked_by_this of list_dependencies: the tasks that depend on the task
blocked_by_this(task_id, all_tasks) ==
    SelectSeq(all_tasks, LAMBDA t : task_id \in SeqToSet(t.dependencies))

\* the ids of a list of tasks, in its order
IdsOf(tasks) == [i \in 1..Len(tasks) |-> tasks[i].id]

\* list_dependencies with --json: the message and the document it prints
list_dependencies(exists, lines, task_id) ==
    IF load_raises(exists, lines)
    THEN [message |-> LoadError, output |-> None]
    ELSE LET task == get_task_by_id(exists, lines, task_id)
             all_tasks == load_tasks(exists, lines).tasks
         IN IF task = None
            THEN [message |-> "Error: Task not found", output |-> None]
            ELSE [message |-> "",
                  output |-> Some([task_id |-> task[1].id,
                                   depends_on |-> task[1].dependencies,
                                   blocks |-> IdsOf(blocked_by_this(task[1].id,
                                                                    all_tasks))])]

----------------------------------------------------------------------------
(* commands/ready.py *)

\* {t.id for t in all_tasks if t.status == "closed"}
ClosedIds(all_tasks) ==
    {all_tasks[k].id : k \in {k \in 1..Len(all_tasks) : all_tasks[k].status = "closed"}}

\* a buggy readiness test: a dependency with no task counts as resolved
IsReadyIgnoringUnknown(task, all_tasks) ==
    /\ task.status = "open"
    /\ \A dep_id \in SeqToSet(task.dependencies) :
          dep_id \in TaskIdsOf(all_tasks) => dep_id \in ClosedIds(all_tasks)

\* the test of the loop: status open and all(dep_id in closed_ids ...)
IsReady(task, all_tasks) ==
    /\ task.status = "open"
    /\ \A dep_id \in SeqToSet(task.dependencies) : dep_id \in ClosedIds(all_tasks)

RECURSIVE SortByPriorityOnly(_)
\* a buggy sort: the key is the priority alone, ties keep the order of load
SortByPriorityOnly(tasks) ==
    IF tasks = <<>> THEN <<>>
    ELSE LET i == CHOOSE i \in 1..Len(tasks) :
                      /\ \A k \in 1..Len(tasks) :
                            tasks[i].priority <= tasks[k].priority
                      /\ \A k \in 1..(i - 1) :
                            tasks[i].priority < tasks[k].priority
         IN <<tasks[i]>> \o SortByPriorityOnly(RemoveAt(tasks, i))

RECURSIVE SortByPriorityId(_)
\* tasks.sort(key=lambda t: (t.priority, t.id)), a stable sort
SortByPriorityId(tasks) ==
    IF tasks = <<>> THEN <<>>
    ELSE LET Before(x, y) == \/ x.priority < y.priority
                             \/ x.priority = y.priority /\ x.id < y.id
             i == CHOOSE i \in 1..Len(tasks) :
                      /\ \A k \in 1..Len(tasks) : ~Before(tasks[k], tasks[i])
                      /\ \A k \in 1..(i - 1) : Before(tasks[i], tasks[k])
         IN <<tasks[i]>> \o SortByPriorityId(RemoveAt(tasks, i))

RECURSIVE ReadyFilter(_, _)
\* the loop of ready_tasks: the ready tasks in the order of all_tasks
ReadyFilter(tasks, all_tasks) ==
    IF tasks = <<>> THEN <<>>
    ELSE (IF IsReady(Head(tasks), all_tasks) THEN <<Head(tasks)>> ELSE <<>>)
         \o ReadyFilter(Tail(tasks), all_tasks)

\* ready_tasks: the list the command prints
ready_tasks(exists, lines) ==
    LET all_tasks == load_tasks(exists, lines).tasks
    IN SortByPriorityId(ReadyFilter(all_tasks, all_tasks))

----------------------------------------------------------------------------
(* commands/list.py: an option of list is None or Some(value) *)

\* a buggy status filter: the default restriction is applied also beside a
\* status filter
StatusFilterDefaultAlways(tasks, status, all) ==
    LET chosen == IF status # None
                  THEN SelectSeq(tasks, LAMBDA t : t.status = status[1])
                  ELSE tasks
    IN IF ~all
       THEN SelectSeq(chosen, LAMBDA t : t.status \in {"open", "in_progress"})
       ELSE chosen

\* if args.status: ... elif not args.all: ...
StatusFilter(tasks, status, all) ==
    IF status # None
    THEN SelectSeq(tasks, LAMBDA t : t.status = status[1])
    ELSE IF ~all
    THEN SelectSeq(tasks, LAMBDA t : t.status \in {"open", "in_progress"})
    ELSE tasks

\* list_tasks: the list the command prints
list_tasks(exists, lines, args) ==
    LET all_tasks == load_tasks(exists, lines).tasks
        by_status == StatusFilter(all_tasks, args.status, args.all)
        by_type == IF args.type # None
                   THEN SelectSeq(by_status, LAMBDA t : t.type = args.type[1])
                   ELSE by_status
        by_assignee == IF args.assignee # None
                       THEN SelectSeq(by_type,
                                      LAMBDA t : t.assignee = args.assignee)
                       ELSE by_type
        by_label == IF args.label # None
                    THEN SelectSeq(by_assignee,
                                   LAMBDA t : args.label[1] \in SeqToSet(t.labels))
                    ELSE by_assignee
    IN SortByPriorityId(by_label)

----------------------------------------------------------------------------
(* commands/import_beads.py                                                *)
(* A line of the beads file is [kind |-> "blank"], [kind |-> "bad"] (text  *)
(* that is not JSON) or [kind |-> "json", data |-> d], d a function from   *)
(* the keys the line gives to their values. A beads timestamp is a local   *)
(* time with its offset to UTC, or a string that is no ISO timestamp; a    *)
(* beads priority is a JSON integer, a JSON float, a JSON string or null.  *)

\* beads_data.get(key, default)
Get(d, key, default) == IF key \in DOMAIN d THEN d[key] ELSE default

\* convert_timestamp_to_utc: None for a missing or empty value, the UTC
\* time for a timestamp, an error for anything else
convert_timestamp_to_utc(ts) ==
    IF ts = None THEN [ok |-> TRUE, value |-> None]
    ELSE IF ts[1].valid
    THEN [ok |-> TRUE, value |-> Some(ts[1].local - ts[1].offset)]
    ELSE [ok |-> FALSE, value |-> None]

\* str.lower on the spellings of the model
Lower(str) ==
    IF str = "OPEN" THEN "open"
    ELSE IF str = "Closed" THEN "closed"
    ELSE IF str = "Bug" THEN "bug"
    ELSE str

\* map_status without str.lower
map_status_as_spelled(beads_status) ==
    IF beads_status \in {"open", "closed", "in_progress", "to_review"}
    THEN <<beads_status, FALSE>>
    ELSE <<"open", TRUE>>

\* map_status: the status and whether a warning is due
map_status(beads_status) ==
    IF Lower(beads_status) \in {"open", "closed", "in_progress", "to_review"}
    THEN <<Lower(beads_status), FALSE>>
    ELSE <<"open", TRUE>>

\* map_type
map_type(beads_type) ==
    IF Lower(beads_type) \in {"task", "bug", "feature", "epic", "chore"}
    THEN <<Lower(beads_type), FALSE>>
    ELSE <<"task", TRUE>>

\* int(priority): the integer of a JSON integer, the integer part of a JSON
\* float (held in tenths, truncated towards zero) or the integer of a string
\* of digits; None for what raises ValueError or TypeError (any other
\* string, null)
IntOf(priority) ==
    IF priority.kind = "int" THEN Some(priority.value)
    ELSE IF priority.kind = "float"
    THEN Some(IF priority.tenths >= 0 THEN priority.tenths \div 10
              ELSE 0 - ((0 - priority.tenths) \div 10))
    ELSE IF priority.kind = "str" /\ priority.value = "3" THEN Some(3)
    ELSE None

\* the priority of the task and the warnings of its conversion
ConvertPriority(priority) ==
    LET n == IntOf(priority)
    IN IF n = None
       THEN [priority |-> 2,
             warnings |-> <<<<"Invalid priority '", priority,
                              "', defaulting to 2">>>>]
       ELSE IF 0 <= n[1] /\ n[1] <= 4
       THEN [priority |-> n[1], warnings |-> <<>>]
       ELSE [priority |-> 2,
             warnings |-> <<<<"Priority ", n[1],
                              " out of range, defaulting to 2">>>>]

\* build_notes: one line for the creator, one for the close reason (a null
\* or empty value, held as None, gives no line)
build_notes(created_by, close_reason) ==
    (IF created_by # None
     THEN <<<<"Created by: ", created_by[1]>>>> ELSE <<>>)
    \o (IF close_reason # None
        THEN <<<<"Close reason: ", close_reason[1]>>>> ELSE <<>>)

\* a value that `not value` holds for: a missing key, or null or the empty
\* string, both held as None
Falsy(d, key) == key \notin DOMAIN d \/ d[key] = None

\* convert_beads_task: the task and its warnings, or the ValueError
convert_beads_task(beads_data, now) ==
    IF Falsy(beads_data, "id")
    THEN [ok |-> FALSE, error |-> "Missing required field: id"]
    ELSE IF Falsy(beads_data, "title")
    THEN [ok |-> FALSE, error |-> "Missing required field: title"]
    ELSE
    LET status == map_status(Get(beads_data, "status", "open"))
        type == map_type(Get(beads_data, "issue_type", "task"))
        created_at == convert_timestamp_to_utc(Get(beads_data, "created_at", None))
        updated_at == convert_timestamp_to_utc(Get(beads_data, "updated_at", None))
        closed_at == convert_timestamp_to_utc(Get(beads_data, "closed_at", None))
        priority == ConvertPriority(Get(beads_data, "priority",
                                        [kind |-> "int", value |-> 2]))
    IN IF ~(created_at.ok /\ updated_at.ok /\ closed_at.ok)
       THEN [ok |-> FALSE, error |-> "Timestamp conversion failed"]
       ELSE [ok |-> TRUE,
             task |-> [id |-> beads_data.id[1],
                       title |-> beads_data.title[1],
                       description |-> Get(beads_data, "description", ""),
                       status |-> status[1],
                       priority |-> priority.priority,
                       type |-> type[1],
                       assignee |-> Get(beads_data, "owner", None),
                       created_at |-> IF created_at.value = None THEN now
                                      ELSE created_at.value[1],
                       updated_at |-> IF updated_at.value = None THEN now
                                      ELSE updated_at.value[1],
                       closed_at |-> closed_at.value,
                       labels |-> <<>>,
                       dependencies |-> <<>>,
                       notes |-> build_notes(Get(beads_data, "created_by", None),
                                             Get(beads_data, "close_reason", None))],
             warnings |-> (IF status[2]
                           THEN <<<<"Unknown status '",
                                    Get(beads_data, "status", "open"),
                                    "', defaulting to 'open'">>>>
                           ELSE <<>>)
                          \o (IF type[2]
                              THEN <<<<"Unknown type '",
                                       Get(beads_data, "issue_type", "task"),
                                       "', defaulting to 'task'">>>>
                              ELSE <<>>)
                          \o priority.warnings]

\* the state of an import run: the log, the ids taken, the counters, the
\* outcome of every line, and the readings of the clock so far
ImportStart(lines, existing_ids) ==
    [lines |-> lines, existing_ids |-> existing_ids,
     total_lines |-> 0, imported |-> 0, skipped |-> 0, errors |-> 0,
     details |-> <<>>, ticks |-> 0]

\* the titles that stand for a JSON number, held as the text of the number
JsonNumbers == {"5"}

\* len(value) is defined: the value is a string, and no number
HasLen(value) == value \notin JsonNumbers

\* the body of the loop of import_from_beads for one line of the file; in
\* text mode the progress line of an imported task takes len(task.title)
\* after the task was saved and counted, and a TypeError there is caught as
\* an unexpected error of the same line
ImportLine(run, line, line_num, dry_run, json, now) ==
    IF line.kind = "blank" THEN run
    ELSE IF line.kind = "bad"
    THEN [run EXCEPT !.total_lines = @ + 1, !.errors = @ + 1,
                     !.details = Append(@, [line |-> line_num, status |-> "error"])]
    ELSE LET c == convert_beads_task(line.data, now + run.ticks)
             read == IF Falsy(line.data, "id") \/ Falsy(line.data, "title")
                        \/ (~c.ok /\ c.error = "Timestamp conversion failed")
                     THEN 0 ELSE 1
         IN IF ~c.ok
            THEN [run EXCEPT !.total_lines = @ + 1, !.errors = @ + 1,
                             !.ticks = @ + read,
                             !.details = Append(@, [line |-> line_num,
                                                   status |-> "error"])]
            ELSE IF c.task.id \in run.existing_ids
            THEN [run EXCEPT !.total_lines = @ + 1, !.skipped = @ + 1,
                             !.ticks = @ + read,
                             !.details = Append(@, [id |-> c.task.id,
                                                   status |-> "skipped"])]
            ELSE LET printed == json \/ HasLen(c.task.title)
                 IN [run EXCEPT
                        !.total_lines = @ + 1, !.imported = @ + 1,
                        !.errors = IF printed THEN @ ELSE @ + 1,
                        !.ticks = @ + read,
                        !.lines = IF dry_run THEN @ ELSE save_task(@, c.task),
                        !.existing_ids = IF dry_run THEN @
                                         ELSE @ \cup {c.task.id},
                        !.details =
                            Append(@, [id |-> c.task.id, status |-> "imported",
                                       warnings |-> c.warnings])
                            \o (IF printed THEN <<>>
                                ELSE <<[line |-> line_num,
                                        status |-> "error"]>>)]

\* the loop over the lines of the beads file
RECURSIVE ImportLines(_, _, _, _, _, _)
ImportLines(run, beads, line_num, dry_run, json, now) ==
    IF line_num > Len(beads) THEN run
    ELSE ImportLines(ImportLine(run, beads[line_num], line_num, dry_run, json,
                                now),
                     beads, line_num + 1, dry_run, json, now)

\* import_from_beads saving what it converts whatever the dry-run flag
import_from_beads_always_saves(exists, lines, beads_exists, beads, dry_run, json, now) ==
    IF ~beads_exists
    THEN [lines |-> lines, message |-> "Error: File not found",
          loaded |-> FALSE, ticks |-> 0,
          stats |-> <<>>, details |-> <<>>]
    ELSE IF load_raises(exists, lines) THEN Raised(lines)
    ELSE LET tasks == load_tasks(exists, lines).tasks
             run == ImportLines(ImportStart(lines, TaskIdsOf(tasks)),
                                beads, 1, FALSE, json, now)
         IN [lines |-> run.lines, message |-> "Summary",
             loaded |-> TRUE, ticks |-> run.ticks,
             stats |-> [total_lines |-> run.total_lines,
                        imported |-> run.imported,
                        skipped |-> run.skipped,
                        errors |-> run.errors],
             details |-> run.details]

\* import_from_beads: the log after the run, what it reports, and the
\* readings of the clock it took; a missing beads file ends it at once
import_from_beads(exists, lines, beads_exists, beads, dry_run, json, now) ==
    IF ~beads_exists
    THEN [lines |-> lines, message |-> "Error: File not found",
          loaded |-> FALSE, ticks |-> 0,
          stats |-> <<>>, details |-> <<>>]
    ELSE IF load_raises(exists, lines) THEN Raised(lines)
    ELSE LET tasks == load_tasks(exists, lines).tasks
             run == ImportLines(ImportStart(lines, TaskIdsOf(tasks)),
                                beads, 1, dry_run, json, now)
         IN [lines |-> run.lines, message |-> "Summary",
             loaded |-> TRUE, ticks |-> run.ticks,
             stats |-> [total_lines |-> run.total_lines,
                        imported |-> run.imported,
                        skipped |-> run.skipped,
                        errors |-> run.errors],
             details |-> run.details]

----------------------------------------------------------------------------
(* The commands as steps: from no log file, the commands run one at a      *)
(* time, each in a process of its own with a Storage of its own. Every     *)
(* call of datetime.utcnow() returns the next tick of the clock.           *)

Statuses == {"open", "in_progress", "to_review", "closed"}

\* sequences over S of length lo..hi
SeqsOf(S, lo, hi) == UNION {[1..n -> S] : n \in lo..hi}

\* the candidates the id generator draws from ids: k times x, then y
DrawSeqs(ids) ==
    {[i \in 1..Attempts |-> IF i <= k THEN x ELSE y] :
        x \in ids, y \in ids, k \in {1, Attempts}}

CreateArgs ==
    {[title |-> "t", description |-> "", type |-> "task", priority |-> 2,
      assignee |-> None, labels |-> <<>>]}

StatusOpts == {[status |-> st] : st \in Statuses}

Reasons == {None, Some("r")}

Assignees == {None, Some("bob")}

\* the arguments of close and cancel: ids, --review, both or neither
BatchArgs(ids) ==
    {[review |-> FALSE, ids |-> s] : s \in SeqsOf(ids, 0, 2)}
    \cup {[review |-> TRUE, ids |-> <<>>], [review |-> TRUE, ids |-> <<1>>]}

\* every order in which a set of ids can be iterated
Orders(ids) ==
    {o \in [1..Cardinality(ids) -> ids] :
        \A i, j \in 1..Cardinality(ids) : o[i] = o[j] => i = j}

Init ==
    /\ fileExists = FALSE
    /\ log = <<>>
    /\ storage = NewStorage
    /\ cmd = [name |-> "init"]
    /\ out = <<>>
    /\ clock = 1
    /\ Quiet

\* the file, the clock and the Storage object after a command that left the
\* log as r.lines: every record appended took one reading of the clock
Ran(r, loaded) ==
    /\ clock + (Len(r.lines) - Len(log)) <= MaxTime + 1
    /\ clock' = clock + (Len(r.lines) - Len(log))
    /\ log' = r.lines
    /\ fileExists' = (fileExists \/ Len(r.lines) > Len(log))
    /\ storage' = IF loaded THEN Loaded(NewStorage, fileExists, log)
                  ELSE NewStorage
    /\ out' = [message |-> r.message]
    /\ UNCHANGED <<config, stderr, cleaner, procs>>

Create(ids) ==
    \E args \in CreateArgs, draws \in DrawSeqs(ids) :
        \E r \in {create_task(fileExists, log, args, draws, clock)} :
            /\ Ran(r, TRUE)
            /\ cmd' = [name |-> "create"]

Update(ids, options) ==
    \E id \in ids, opts \in options :
        \E r \in {update_task(fileExists, log, id, opts, clock)} :
            /\ Ran(r, TRUE)
            /\ cmd' = [name |-> "update", id |-> id]

Start(ids, assignees) ==
    \E id \in ids, assignee \in assignees :
        \E r \in {start_task(fileExists, log, id, assignee, clock)} :
            /\ Ran(r, TRUE)
            /\ cmd' = [name |-> "start", id |-> id]

Close(ids) ==
    \E a \in BatchArgs(ids) :
        \E r \in {close_tasks(fileExists, log, a.review, a.ids, clock)} :
            /\ Ran(r, r.loaded)
            /\ cmd' = [name |-> "close"]

Cancel(ids, reasons) ==
    \E a \in BatchArgs(ids), reason \in reasons :
        \E r \in {cancel_tasks(fileExists, log, a.review, a.ids, reason,
                                clock)} :
            /\ Ran(r, r.loaded)
            /\ cmd' = [name |-> "cancel"]

\* dep add, the sets of detect_cycle iterated in one of the given orders
DepAddIn(ids, orders) ==
    \E task_id \in ids, depends_on_id \in ids, order \in orders :
        \E r \in {add_dependency(fileExists, log, task_id, depends_on_id,
                                  order, clock)} :
            /\ Ran(r, TRUE)
            /\ cmd' = [name |-> "dep add", task_id |-> task_id,
                       depends_on_id |-> depends_on_id]

DepAdd(ids) == DepAddIn(ids, Orders(ids))

DepRemove(ids) ==
    \E task_id \in ids, depends_on_id \in ids :
        \E r \in {remove_dependency(fileExists, log, task_id, depends_on_id,
                                     clock)} :
            /\ Ran(r, TRUE)
            /\ cmd' = [name |-> "dep remove", task_id |-> task_id,
                       depends_on_id |-> depends_on_id]

----------------------------------------------------------------------------
(* The life of one task: the id generator draws from a space of one id, so *)
(* one task is created; id 2 is an id of no task.                          *)

LifeIds == {1}

NextLife ==
    \/ Create(LifeIds)
    \/ Update(TaskIds, StatusOpts)
    \/ Start(TaskIds, {None})
    \/ Close(TaskIds)
    \/ Cancel(TaskIds, {None})

SpecLife == Init /\ [][NextLife]_vars

----------------------------------------------------------------------------
(* Two tasks and the dependency commands *)

NextDeps ==
    \/ Create(TaskIds)
    \/ DepAdd(TaskIds)
    \/ DepRemove(TaskIds)
    \/ Close(TaskIds)
    \/ CleanLog

SpecDeps == Init /\ [][NextDeps]_vars

(* Two dep add commands in processes of their own, run step by step. Each  *)
(* process reads the log three times (get_task_by_id twice and             *)
(* get_all_tasks), decides on what it read, and appends at most one        *)
(* record. procs[p].reads holds the logs process p has read, in order.     *)

Procs == {1, 2}

\* a dep add process before its first step
DepProc(task_id, depends_on_id) ==
    [pc |-> "start", task_id |-> task_id, depends_on_id |-> depends_on_id,
     task |-> None, depends_on |-> None, message |-> "", reads |-> <<>>]

\* the logs the two processes start from: tasks 1 and 2 without
\* dependencies, or task 1 depending on task 2 already, or task 1 alone
RaceLogs ==
    {<<JsonLine(TaskCreate(1, "t", 1, <<>>)), JsonLine(TaskCreate(2, "t", 1, <<>>))>>,
     <<JsonLine([TaskCreate(1, "t", 1, <<>>) EXCEPT !["dependencies"] = <<2>>]),
       JsonLine(TaskCreate(2, "t", 1, <<>>))>>,
     <<JsonLine(TaskCreate(1, "t", 1, <<>>))>>}

InitDepRace ==
    /\ fileExists = TRUE
    /\ log \in RaceLogs
    /\ storage = NewStorage
    /\ cmd = [name |-> "init"]
    /\ out = <<>>
    /\ clock = 2
    /\ config = DefaultConfig
    /\ stderr = <<>>
    /\ cleaner = Idle
    /\ \E a1 \in TaskIds, b1 \in TaskIds, a2 \in TaskIds, b2 \in TaskIds :
          procs = [p \in Procs |-> IF p = 1 THEN DepProc(a1, b1)
                                   ELSE DepProc(a2, b2)]

DepFrame == UNCHANGED <<storage, out, config, stderr, cleaner>>

\* task = storage.get_task_by_id(args.task_id)
DepGetTask(p) ==
    /\ procs[p].pc = "start"
    /\ procs' = [procs EXCEPT
          ![p].pc = "got_task",
          ![p].task = get_task_by_id(fileExists, log, procs[p].task_id),
          ![p].reads = Append(@, log)]
    /\ cmd' = [name |-> "dep add", proc |-> p, step |-> "get_task"]
    /\ UNCHANGED <<fileExists, log, clock>>
    /\ DepFrame

\* depends_on = storage.get_task_by_id(args.depends_on_id), then the two
\* checks that the tasks were found
DepGetDependsOn(p) ==
    /\ procs[p].pc = "got_task"
    /\ LET depends_on == get_task_by_id(fileExists, log, procs[p].depends_on_id)
       IN procs' = [procs EXCEPT
             ![p].pc = IF procs[p].task = None \/ depends_on = None
                       THEN "done" ELSE "found",
             ![p].message = IF procs[p].task = None \/ depends_on = None
                            THEN "Error: Task not found" ELSE "",
             ![p].depends_on = depends_on,
             ![p].reads = Append(@, log)]
    /\ cmd' = [name |-> "dep add", proc |-> p, step |-> "get_depends_on"]
    /\ UNCHANGED <<fileExists, log, clock>>
    /\ DepFrame

\* all_tasks = storage.get_all_tasks() and detect_cycle on it, then the
\* check that the dependency is not there yet, on the task read first
DepCheck(p) ==
    /\ procs[p].pc = "found"
    /\ \E order \in Orders(TaskIds) :
          LET cycle == detect_cycle(procs[p].task_id, procs[p].depends_on_id,
                                    load_tasks(fileExists, log).tasks, order)
              present == procs[p].depends_on_id
                            \in SeqToSet(procs[p].task[1].dependencies)
          IN procs' = [procs EXCEPT
                ![p].pc = IF cycle \/ present THEN "done" ELSE "checked",
                ![p].message =
                    IF cycle
                    THEN "Error: Adding this dependency would create a cycle"
                    ELSE IF present THEN "Dependency already exists" ELSE "",
                ![p].reads = Append(@, log)]
    /\ cmd' = [name |-> "dep add", proc |-> p, step |-> "detect_cycle"]
    /\ UNCHANGED <<fileExists, log, clock>>
    /\ DepFrame

\* a save that holds the log while it runs detect_cycle again on what the
\* log holds now, and appends only if there is still no cycle
DepSaveChecksAgain(p) ==
    /\ procs[p].pc = "checked"
    /\ clock <= MaxTime
    /\ LET cycle == detect_cycle(procs[p].task_id, procs[p].depends_on_id,
                                 load_tasks(fileExists, log).tasks, <<1, 2>>)
       IN /\ log' = IF cycle THEN log
                    ELSE save_task(log,
                            update_fields(procs[p].task[1],
                                [dependencies |->
                                    Append(procs[p].task[1].dependencies,
                                           procs[p].depends_on_id)],
                                clock))
          /\ procs' = [procs EXCEPT
                ![p].pc = "done",
                ![p].message =
                    IF cycle
                    THEN "Error: Adding this dependency would create a cycle"
                    ELSE "Added dependency"]
    /\ clock' = clock + 1
    /\ cmd' = [name |-> "dep add", proc |-> p, step |-> "save_task"]
    /\ UNCHANGED fileExists
    /\ DepFrame

\* updated_task = task.update_fields(dependencies=new_deps), then
\* storage.save_task(updated_task)
DepSave(p) ==
    /\ procs[p].pc = "checked"
    /\ clock <= MaxTime
    /\ log' = save_task(log,
                 update_fields(procs[p].task[1],
                     [dependencies |-> Append(procs[p].task[1].dependencies,
                                              procs[p].depends_on_id)],
                     clock))
    /\ clock' = clock + 1
    /\ procs' = [procs EXCEPT ![p].pc = "done",
                              ![p].message = "Added dependency"]
    /\ cmd' = [name |-> "dep add", proc |-> p, step |-> "save_task"]
    /\ UNCHANGED fileExists
    /\ DepFrame

DepSteps(p) ==
    DepGetTask(p) \/ DepGetDependsOn(p) \/ DepCheck(p) \/ DepSave(p)

NextDepRace == \E p \in Procs : DepSteps(p)

SpecDepRace == InitDepRace /\ [][NextDepRace]_vars

(* The commands that revise one task, on a log of one or two tasks, the   *)
(* clock leaving room for two writes.                                     *)

\* the options of update: none, a status, a priority in its three
\* spellings and two that parse_priority rejects
SingleOpts ==
    {<<>>, [status |-> "closed"]}
    \cup {[priority |-> v] : v \in {"3", "P1", "9", "high"}}

InitSingle ==
    /\ fileExists = TRUE
    /\ log \in RaceLogs
    /\ storage = NewStorage
    /\ cmd = [name |-> "init"]
    /\ out = <<>>
    /\ clock = MaxTime - 1
    /\ Quiet

NextSingle ==
    \/ Update(TaskIds, SingleOpts)
    \/ Start(TaskIds, Assignees)
    \/ DepAdd(TaskIds)
    \/ DepRemove(TaskIds)

SpecSingle == InitSingle /\ [][NextSingle]_vars

----------------------------------------------------------------------------
(* The id generator: creates over a space of three ids, the stream of      *)
(* candidates random.choices would give being part of the step.            *)

IdSpace == {1, 2, 3}

\* streams of candidates, one longer than the generator may read: k times
\* x, then y
DrawStreams(ids) ==
    {[i \in 1..(Attempts + 1) |-> IF i <= k THEN x ELSE y] :
        x \in ids, y \in ids, k \in {1, Attempts - 1, Attempts}}

CreateDrawn(ids) ==
    \E args \in CreateArgs, draws \in DrawStreams(ids) :
        /\ Ran(create_task(fileExists, log, args, draws, clock), TRUE)
        /\ cmd' = [name |-> "create", draws |-> draws]

NextIds == CreateDrawn(IdSpace)

SpecIds == Init /\ [][NextIds]_vars

----------------------------------------------------------------------------
(* Every command that writes the log, one at a time, from no log file *)

\* a record of the beads file
BeadsRecord(id, status) ==
    [kind |-> "json",
     data |-> [id |-> Some(id), title |-> Some("b"), status |-> status]]

\* the beads files given to import: none at the path, or a file of text
\* that is no JSON, of a record without an id, of a record, of a record
\* after a bad line, or of two records with the same id
BeadsFiles(ids) ==
    {[exists |-> FALSE, lines |-> <<>>],
     [exists |-> TRUE, lines |-> <<[kind |-> "bad"]>>],
     [exists |-> TRUE,
      lines |-> <<[kind |-> "json", data |-> [title |-> Some("b")]]>>]}
    \cup {[exists |-> TRUE, lines |-> <<BeadsRecord(id, "closed")>>] : id \in ids}
    \cup {[exists |-> TRUE,
           lines |-> <<[kind |-> "bad"], Blank, BeadsRecord(id, "open")>>] :
              id \in ids}
    \cup {[exists |-> TRUE,
           lines |-> <<BeadsRecord(id, "open"), BeadsRecord(id, "closed")>>] :
              id \in ids}

\* the import command, its progress in text
Import(files, dry_runs) ==
    \E file \in files, dry_run \in dry_runs :
        \E r \in {import_from_beads(fileExists, log, file.exists, file.lines,
                                    dry_run, FALSE, clock)} :
           /\ clock + r.ticks <= MaxTime + 1
           /\ clock' = clock + r.ticks
           /\ log' = r.lines
           /\ fileExists' = (fileExists \/ Len(r.lines) > Len(log))
           /\ storage' = IF r.loaded THEN Loaded(NewStorage, fileExists, log)
                         ELSE NewStorage
           /\ cmd' = [name |-> "import"]
           /\ out' = [message |-> r.message, stats |-> r.stats,
                      details |-> r.details]
           /\ UNCHANGED <<config, stderr, cleaner, procs>>

\* update as the one way into to_review, which close --review then reads
ReviewOpts == {[status |-> "to_review"]}

NextLog ==
    \/ Create(LifeIds)
    \/ Update(TaskIds, ReviewOpts)
    \/ Start(TaskIds, {None})
    \/ Close(LifeIds)
    \/ Cancel(LifeIds, {None})
    \/ DepAdd(TaskIds)
    \/ DepRemove(TaskIds)
    \/ Import(BeadsFiles({2}), BOOLEAN)
    \/ CleanLog

\* no log file yet; the clock has been read once
InitLog ==
    /\ fileExists = FALSE
    /\ log = <<>>
    /\ storage = NewStorage
    /\ cmd = [name |-> "init"]
    /\ out = <<>>
    /\ clock = 2
    /\ Quiet

SpecLog == InitLog /\ [][NextLog]_vars

(* The commands of ticketlog without import, from no log file *)

\* update into closed and out of it
CloseOpts == {[status |-> "closed"], [status |-> "open"]}

NextNoImport ==
    \/ Create(TaskIds)
    \/ Update(TaskIds, CloseOpts)
    \/ Start(LifeIds, {None})
    \/ Close(LifeIds)
    \/ Cancel(LifeIds, {None})
    \/ DepAdd(TaskIds)
    \/ DepRemove(TaskIds)
    \/ CleanLog

SpecNoImport == InitLog /\ [][NextNoImport]_vars

----------------------------------------------------------------------------
(* A log with a line that is no task record: load_tasks and every command  *)
(* that uses the log, one at a time.                                       *)

\* lines load_tasks rejects: not JSON, a record without title, a record
\* with a key Task does not have
InvalidLines ==
    {[kind |-> "bad"],
     [kind |-> "json", data |-> [id |-> 1, created_at |-> 1, updated_at |-> 1]],
     [kind |-> "json",
      data |-> [id |-> 1, title |-> "t", created_at |-> 1, updated_at |-> 1,
                foo |-> 0]]}

\* lines load_tasks accepts: a blank line, an open task 1, a task 2 in
\* to_review
ValidLines ==
    {Blank, JsonLine(TaskCreate(1, "t", 1, <<>>)),
     JsonLine(TaskCreate(2, "t", 1, [status |-> "to_review"]))}

InitBad ==
    /\ fileExists = TRUE
    /\ log \in {l \in SeqsOf(InvalidLines \cup ValidLines, 1, MaxLoadLen) :
                   \E i \in 1..Len(l) : l[i] \in InvalidLines}
    /\ storage = NewStorage
    /\ cmd = [name |-> "init"]
    /\ out = <<>>
    /\ clock = 1
    /\ Quiet

NextBad ==
    \/ LoadTasks
    \/ Create(LifeIds)
    \/ Update(TaskIds, ReviewOpts)
    \/ Start(TaskIds, {None})
    \/ Close(TaskIds)
    \/ Cancel(TaskIds, {None})
    \/ DepAdd(TaskIds)
    \/ DepRemove(TaskIds)
    \/ Import(BeadsFiles({2}), BOOLEAN)
    \/ CleanLog

SpecBad == InitBad /\ [][NextBad]_vars

----------------------------------------------------------------------------
(* import on its own: a store of up to two tasks, then imports of beads    *)
(* files, the file and the dry-run flag kept in cmd.                       *)

MaxBeads == 2

\* the lines of a beads file: blank, text that is no JSON, a record without
\* id, records of ids 1 and 2
BeadsLines ==
    {Blank, [kind |-> "bad"],
     [kind |-> "json", data |-> [title |-> Some("b")]],
     BeadsRecord(1, "open"), BeadsRecord(2, "closed")}

\* the log before the first import: no file, or task 1, or tasks 1 and 2
ImportStores ==
    {[exists |-> FALSE, lines |-> <<>>],
     [exists |-> TRUE, lines |-> <<JsonLine(TaskCreate(1, "t", 1, <<>>))>>],
     [exists |-> TRUE, lines |-> <<JsonLine(TaskCreate(1, "t", 1, <<>>)),
                                   JsonLine(TaskCreate(2, "t", 1, <<>>))>>]}

InitImport ==
    /\ \E store \in ImportStores : fileExists = store.exists /\ log = store.lines
    /\ storage = NewStorage
    /\ cmd = [name |-> "init"]
    /\ out = <<>>
    /\ clock = MaxTime - 1
    /\ Quiet

\* the import command on a beads file that exists
ImportFileIn(files, jsons) ==
    \E lines \in files, dry_run \in BOOLEAN, json \in jsons :
        \E r \in {import_from_beads(fileExists, log, TRUE, lines, dry_run,
                                    json, clock)} :
           /\ clock + r.ticks <= MaxTime + 1
           /\ clock' = clock + r.ticks
           /\ log' = r.lines
           /\ fileExists' = (fileExists \/ Len(r.lines) > Len(log))
           /\ storage' = IF r.loaded THEN Loaded(NewStorage, fileExists, log)
                         ELSE NewStorage
           /\ cmd' = [name |-> "import", lines |-> lines, dry_run |-> dry_run,
                    json |-> json]
           /\ out' = [message |-> r.message, stats |-> r.stats,
                      details |-> r.details]
           /\ UNCHANGED <<config, stderr, cleaner, procs>>

\* imports of files whose titles are strings, their progress in text
ImportFile == ImportFileIn(SeqsOf(BeadsLines, 0, MaxBeads), {FALSE})

NextImport == ImportFile

SpecImport == InitImport /\ [][NextImport]_vars

(* import in text and in JSON mode, of files that may hold a record whose  *)
(* title is a number.                                                      *)

\* the lines of a beads file: blank, text that is no JSON, a record without
\* id, a record of id 1, a record of id 2 whose title is a number
OutcomeLines ==
    {Blank, [kind |-> "bad"],
     [kind |-> "json", data |-> [title |-> Some("b")]],
     BeadsRecord(1, "open"),
     [kind |-> "json", data |-> [id |-> Some(2), title |-> Some("5")]]}

ImportAny == ImportFileIn(SeqsOf(OutcomeLines, 0, MaxBeads), BOOLEAN)

NextOutcome == ImportAny

SpecOutcome == InitImport /\ [][NextOutcome]_vars

(* convert_beads_task on its own: one record of the beads file, kept in    *)
(* cmd, and its conversion.                                                *)

\* the spellings of status in a beads record: the four names, two of them
\* in other letter cases, and a name ticketlog does not have
BeadsStatuses == {"open", "closed", "in_progress", "to_review",
                  "OPEN", "Closed", "blocked"}

\* the spellings of issue_type
BeadsTypes == {"task", "bug", "feature", "epic", "chore", "Bug", "story"}

\* the values of priority: integers in and out of 0..4, floats, a string of
\* digits, a string of letters, null
BeadsPriorities ==
    {[kind |-> "int", value |-> n] : n \in {0 - 1, 0, 2, 4, 5}}
    \cup {[kind |-> "float", tenths |-> t] : t \in {0 - 5, 25, 45, 50}}
    \cup {[kind |-> "str", value |-> v] : v \in {"3", "high"}}
    \cup {[kind |-> "null"]}

\* the keys a record may leave out
Optional(key, values) ==
    {<<>>} \cup {(key :> v) : v \in values}

\* the records given to convert_beads_task
ConvertRecords ==
    {[id |-> Some(1), title |-> Some("b")] @@ st @@ ty @@ pr :
        st \in Optional("status", BeadsStatuses),
        ty \in Optional("issue_type", BeadsTypes),
        pr \in Optional("priority", BeadsPriorities)}

\* a record read from the beads file, not yet converted
InitConvert ==
    /\ fileExists = FALSE
    /\ log = <<>>
    /\ storage = NewStorage
    /\ \E beads_data \in ConvertRecords :
          cmd = [name |-> "json.loads", beads_data |-> beads_data]
    /\ out = <<>>
    /\ clock = 1
    /\ Quiet

\* the call of convert_beads_task on the record; it reads the clock once
Convert ==
    /\ cmd.name = "json.loads"
    /\ clock' = clock + 1
    /\ cmd' = [name |-> "convert", beads_data |-> cmd.beads_data]
    /\ out' = convert_beads_task(cmd.beads_data, clock)
    /\ UNCHANGED <<fileExists, log, storage, config, stderr, cleaner, procs>>

NextConvert == Convert

SpecConvert == InitConvert /\ [][NextConvert]_vars

----------------------------------------------------------------------------
(* close and cancel on their own: a short log of two tasks, then the two   *)
(* commands with their arguments kept in cmd. Id 3 is the id of no task.   *)

MaxBatchLog == 2

\* the records of the log: task 1 open or in to_review with one line of
\* notes, task 2 in to_review or closed with one line of notes
BatchLines ==
    {JsonLine(TaskCreate(1, "t", 1, <<>>)),
     JsonLine(TaskCreate(1, "t", 1,
                         [status |-> "to_review", notes |-> <<<<"n">>>>])),
     JsonLine(TaskCreate(2, "t", 1, [status |-> "to_review"])),
     JsonLine([TaskCreate(2, "t", 1, [status |-> "closed",
                                      notes |-> <<<<"n">>>>])
                  EXCEPT !["closed_at"] = Some(1)])}

\* args.ids and args.review: no id, an id that resolves, one that does
\* not, one that does not between two that do, an id twice; --review alone
\* and with an id
BatchCalls ==
    {[review |-> FALSE, ids |-> ids] :
        ids \in {<<>>, <<1>>, <<3>>, <<1, 3, 2>>, <<1, 1>>}}
    \cup {[review |-> TRUE, ids |-> <<>>], [review |-> TRUE, ids |-> <<1>>]}

InitBatch ==
    /\ fileExists \in BOOLEAN
    /\ log \in SeqsOf(BatchLines, 0, MaxBatchLog)
    /\ (~fileExists => log = <<>>)
    /\ storage = NewStorage
    /\ cmd = [name |-> "init"]
    /\ out = <<>>
    /\ clock = MaxTime - 1
    /\ Quiet

CloseBatch ==
    \E a \in BatchCalls :
        LET r == close_tasks(fileExists, log, a.review, a.ids, clock)
        IN /\ Ran(r, r.loaded)
           /\ cmd' = [name |-> "close", review |-> a.review, ids |-> a.ids,
                      not_found |-> r.not_found]

CancelBatch ==
    \E a \in BatchCalls, reason \in Reasons :
        LET r == cancel_tasks(fileExists, log, a.review, a.ids, reason, clock)
        IN /\ Ran(r, r.loaded)
           /\ cmd' = [name |-> "cancel", review |-> a.review, ids |-> a.ids,
                      reason |-> reason, not_found |-> r.not_found]

NextBatch == CloseBatch \/ CancelBatch

SpecBatch == InitBatch /\ [][NextBatch]_vars

----------------------------------------------------------------------------
(* Task.update_fields on its own: a task, then revisions derived one from  *)
(* the other with the field sets the commands pass.                        *)

\* the tasks update_fields starts from
FieldTasks ==
    {[TaskCreate(1, "t", 1, <<>>) EXCEPT !["status"] = status,
                                         !["closed_at"] = closed_at,
                                         !["dependencies"] = deps] :
        status \in Statuses, closed_at \in {None, Some(1)},
        deps \in {<<>>, <<2>>}}

\* the keyword arguments of the calls: none, a status, a title, the status
\* and notes of cancel, the assignee of start, the dependencies of dep
FieldKwargs ==
    {<<>>, [title |-> "n"], [dependencies |-> <<2>>],
     [status |-> "closed", notes |-> <<<<"Canceled">>>>],
     [status |-> "in_progress", assignee |-> Some("bob")]}
    \cup {[status |-> st] : st \in Statuses}

InitFields ==
    /\ fileExists = FALSE
    /\ log = <<>>
    /\ storage = NewStorage
    /\ cmd \in {[name |-> "task", result |-> t] : t \in FieldTasks}
    /\ out = <<>>
    /\ clock = 2
    /\ Quiet

\* revision = self.update_fields(**kwargs), self being the task last made
UpdateFields ==
    \E kwargs \in FieldKwargs :
        /\ clock <= MaxTime
        /\ cmd' = [name |-> "update_fields", self |-> cmd.result,
                   kwargs |-> kwargs, now |-> clock,
                   result |-> update_fields(cmd.result, kwargs, clock)]
        /\ out' = cmd.result
        /\ clock' = clock + 1
        /\ UNCHANGED <<fileExists, log, storage, config, stderr, cleaner, procs>>

NextFields == UpdateFields

SpecFields == InitFields /\ [][NextFields]_vars

-----
(* The graph-level specification: any set of tasks with any dependency     *)
(* lists (cycles and ids of no task included), then detect_cycle and the   *)
(* ready view applied to it.                                               *)

GraphIds == {1, 2, 3}

\* the ids a dependency list can hold: 4 is the id of no task
GraphDeps == GraphIds \cup {4}

GraphStatuses == {"open", "closed"}

\* a task of the graph-level specification
GraphTask(id, status, deps) ==
    [TaskCreate(id, "t", 1, <<>>) EXCEPT !["status"] = status,
                                         !["dependencies"] = deps]

\* the records an id can have in the drawn log: none, or one
GraphRecords(id) ==
    {<<>>} \cup
    {<<JsonLine(GraphTask(id, status, InOrder(deps, <<1, 2, 3, 4>>)))>> :
        status \in GraphStatuses, deps \in SUBSET GraphDeps}

InitGraph ==
    /\ fileExists = TRUE
    /\ \E r1 \in GraphRecords(1), r2 \in GraphRecords(2), r3 \in GraphRecords(3) :
          log = r1 \o r2 \o r3
    /\ storage = NewStorage
    /\ cmd = [name |-> "init"]
    /\ out = <<>>
    /\ clock = 1
    /\ Quiet

\* the graphs detect_cycle is run on: status plays no part in it, and an
\* id of no task is one of GraphIds whose record is left out
CycleRecords(id) ==
    {r \in GraphRecords(id) :
        \/ r = <<>>
        \/ /\ r[1].data.status = "open"
           /\ SeqToSet(r[1].data.dependencies) \subseteq GraphIds}

InitCycle ==
    /\ fileExists = TRUE
    /\ \E r1 \in CycleRecords(1), r2 \in CycleRecords(2), r3 \in CycleRecords(3) :
          log = r1 \o r2 \o r3
    /\ storage = NewStorage
    /\ cmd = [name |-> "init"]
    /\ out = <<>>
    /\ clock = 1
    /\ Quiet

\* detect_cycle(task_id, depends_on, storage.get_all_tasks())
DetectCycle ==
    \E task_id \in GraphIds, depends_on \in GraphIds, order \in Orders(GraphIds) :
        /\ cmd' = [name |-> "detect_cycle", task_id |-> task_id,
                   depends_on |-> depends_on]
        /\ out' = detect_cycle(task_id, depends_on,
                               load_tasks(fileExists, log).tasks, order)
        /\ storage' = Loaded(NewStorage, fileExists, log)
        /\ UNCHANGED <<fileExists, log, clock, config, stderr, cleaner, procs>>

\* the ready command
Ready ==
    /\ cmd' = [name |-> "ready"]
    /\ out' = ready_tasks(fileExists, log)
    /\ storage' = Loaded(NewStorage, fileExists, log)
    /\ UNCHANGED <<fileExists, log, clock, config, stderr, cleaner, procs>>

NextCycle == DetectCycle

SpecCycle == InitCycle /\ [][NextCycle]_vars

\* the dep list command, for the id of a task or of none
DepList ==
    \E task_id \in GraphDeps :
        /\ cmd' = [name |-> "dep list", task_id |-> task_id]
        /\ out' = list_dependencies(fileExists, log, task_id)
        /\ storage' = Loaded(NewStorage, fileExists, log)
        /\ UNCHANGED <<fileExists, log, clock, config, stderr, cleaner, procs>>

\* the graphs dep list is run on: status plays no part in the query, so
\* only task 3 is drawn closed as well as open
BlockRecords(id) ==
    {r \in GraphRecords(id) :
        r = <<>> \/ id = 3 \/ r[1].data.status = "open"}

InitBlocks ==
    /\ fileExists = TRUE
    /\ \E r1 \in BlockRecords(1), r2 \in BlockRecords(2), r3 \in BlockRecords(3) :
          log = r1 \o r2 \o r3
    /\ storage = NewStorage
    /\ cmd = [name |-> "init"]
    /\ out = <<>>
    /\ clock = 1
    /\ Quiet

NextBlocks == DepList

SpecBlocks == InitBlocks /\ [][NextBlocks]_vars

NextReady == Ready

SpecReady == InitGraph /\ [][NextReady]_vars

----------------------------------------------------------------------------
(* The list and ready views of a log of three tasks. An id is a number:    *)
(* its rank in the lexical order of the id strings.                        *)

ViewIds == {1, 2, 3}

\* what a task of the log is like, apart from its id
Profiles ==
    {[priority |-> 2, status |-> "open", type |-> "task",
      assignee |-> None, labels |-> <<>>],
     [priority |-> 0, status |-> "open", type |-> "task",
      assignee |-> None, labels |-> <<>>],
     [priority |-> 0, status |-> "in_progress", type |-> "bug",
      assignee |-> Some("bob"), labels |-> <<"x">>],
     [priority |-> 0, status |-> "closed", type |-> "task",
      assignee |-> Some("bob"), labels |-> <<"x", "y">>],
     [priority |-> 2, status |-> "closed", type |-> "bug",
      assignee |-> None, labels |-> <<"x">>]}

\* the logs: one record for each of the three ids, in any order
ViewLogs ==
    {[k \in 1..3 |-> JsonLine(TaskCreate(order[k], "t", 1, profile[order[k]]))] :
        order \in Orders(ViewIds), profile \in [ViewIds -> Profiles]}

\* args of list: --status, --all, and no other filter, one of --type,
\* --assignee and --label, or the three together
ListArgs ==
    {[status |-> status, all |-> all, type |-> f.type,
      assignee |-> f.assignee, label |-> f.label] :
        status \in {None, Some("open"), Some("closed")},
        all \in BOOLEAN,
        f \in {[type |-> None, assignee |-> None, label |-> None],
               [type |-> Some("bug"), assignee |-> None, label |-> None],
               [type |-> None, assignee |-> Some("bob"), label |-> None],
               [type |-> None, assignee |-> None, label |-> Some("x")],
               [type |-> Some("task"), assignee |-> Some("bob"),
                label |-> Some("y")]}}

InitViews ==
    /\ fileExists = TRUE
    /\ log \in ViewLogs
    /\ storage = NewStorage
    /\ cmd = [name |-> "init"]
    /\ out = <<>>
    /\ clock = 1
    /\ Quiet

\* the list command
List ==
    \E args \in ListArgs :
        /\ cmd' = [name |-> "list", args |-> args]
        /\ out' = list_tasks(fileExists, log, args)
        /\ storage' = Loaded(NewStorage, fileExists, log)
        /\ UNCHANGED <<fileExists, log, clock, config, stderr, cleaner, procs>>

NextViews == List \/ Ready

SpecViews == InitViews /\ [][NextViews]_vars

----------------------------------------------------------------------------
(* What the log file holds, read off the lines directly *)

JsonIdx(lines) == {i \in 1..Len(lines) : lines[i].kind = "json"}

IdsIn(lines) == {lines[i].data.id : i \in JsonIdx(lines)}

RecordsOf(lines, id) == {i \in JsonIdx(lines) : lines[i].data.id = id}

LastIdx(lines, id) ==
    CHOOSE i \in RecordsOf(lines, id) : \A j \in RecordsOf(lines, id) : j <= i

\* the id-to-task mapping of a list of tasks
TaskMap(tasks) ==
    [id \in {tasks[k].id : k \in 1..Len(tasks)} |-> tasks[IndexOfId(tasks, id)]]

----------------------------------------------------------------------------
(* Claims on the storage level (SpecStore) *)

\* C1: load_tasks returns exactly one task per distinct id of the log, and
\* that task is the record with that id that comes last in the file,
\* whatever the timestamps of the records are.
C1_LastWriteWins ==
    cmd.name = "load_tasks" =>
        /\ {out[k].id : k \in 1..Len(out)} = IdsIn(log)
        /\ \A k, m \in 1..Len(out) : out[k].id = out[m].id => k = m
        /\ \A k \in 1..Len(out) :
              out[k] = from_dict(log[LastIdx(log, out[k].id)].data)

\* a load of a log with a blank line in which a later record of an id has
\* an older updated_at than an earlier record of the same id
C1_Witness ==
    /\ cmd.name = "load_tasks"
    /\ \E b \in 1..Len(log) : log[b].kind = "blank"
    /\ \E i, j \in JsonIdx(log) :
          /\ i < j
          /\ log[i].data.id = log[j].data.id
          /\ log[i].data.updated_at > log[j].data.updated_at
          /\ log[i].data.title # log[j].data.title

\* C2: after load_tasks on a log with N non-blank lines and U distinct ids
\* dead_history_ratio is (N - U) / N, and 0 when N is 0; the counters are
\* those of the latest load.
C2_DeadHistoryRatio ==
    cmd.name = "load_tasks" =>
        LET N == Cardinality(JsonIdx(log))
            U == Cardinality(IdsIn(log))
            r == dead_history_ratio(storage)
        IN /\ r[2] > 0
           /\ r[1] * N = (N - U) * r[2]
           /\ (N = 0 => r[1] = 0)
           /\ storage.total_lines = N
           /\ storage.unique_count = U

\* a load, after a save, of a log with a blank line and more records than ids
C2_Witness ==
    /\ cmd.name = "load_tasks"
    /\ \E b \in 1..Len(log) : log[b].kind = "blank"
    /\ Cardinality(JsonIdx(log)) > Cardinality(IdsIn(log))
    /\ \E i \in JsonIdx(log) : log[i].data.title = "v3"

\* C9: when clean has completed the log holds exactly one record per live
\* id, so that a reload counts as many lines as ids (dead-history ratio 0).
C9_CleanLeavesOneRecordPerId ==
    cmd.name = "clean" =>
        /\ \A id \in IdsIn(log) : Cardinality(RecordsOf(log, id)) = 1
        /\ LET st == Loaded(NewStorage, fileExists, log)
           IN /\ st.total_lines = st.unique_count
              /\ dead_history_ratio(st)[1] = 0

\* a clean that removed superseded records and left two live tasks
C9_Witness ==
    /\ cmd.name = "clean"
    /\ out.removed_lines > 0
    /\ Cardinality(IdsIn(log)) = 2

\* C10: clean preserves the id-to-task mapping that load_tasks returns.
C10_CleanPreservesTasks ==
    [][cmd'.name = "clean" =>
          TaskMap(load_tasks(fileExists', log').tasks)
              = TaskMap(load_tasks(fileExists, log).tasks)]_vars

\* a clean that rewrote the file: fewer lines, two live tasks, one of them
\* in a revision that had superseded another
C10_Witness ==
    /\ cmd.name = "clean"
    /\ out.message = "Cleaned log"
    /\ Len(log) = 2
    /\ \E i \in JsonIdx(log) : log[i].data.title = "v2"

----------------------------------------------------------------------------
(* The dependency graph, read off the log directly *)

\* the live revision of an id: the data of its last record
LiveData(lines, id) == from_dict(lines[LastIdx(lines, id)].data)

\* the edges "x depends on y" of the live tasks
Edges(lines) ==
    {<<x, y>> \in (IdsIn(lines) \X (GraphIds \cup IdsIn(lines))) :
        y \in SeqToSet(LiveData(lines, x).dependencies)}

RECURSIVE TransitiveClosure(_)
TransitiveClosure(R) ==
    LET R2 == R \cup {<<p[1][1], p[2][2]>> :
                          p \in {q \in R \X R : q[1][2] = q[2][1]}}
    IN IF R2 = R THEN R ELSE TransitiveClosure(R2)

Acyclic(R) == \A e \in TransitiveClosure(R) : e[1] # e[2]

\* a is b, or a is in the transitive dependency closure of b
InClosureOf(a, b, R) == a = b \/ <<b, a>> \in TransitiveClosure(R)

\* R holds a cycle that can be reached from a
CycleReachableFrom(a, R) ==
    LET closure == TransitiveClosure(R)
    IN \E e \in closure :
          /\ e[1] = e[2]
          /\ (e[1] = a \/ <<a, e[1]>> \in closure)

----------------------------------------------------------------------------
(* Claims on the graph level (SpecCycle, SpecReady) *)

\* C5 as stated: detect_cycle(a, b, tasks) is true exactly when a = b or a
\* is in the transitive dependency closure of b, for every task set.
C5_ExactlyClosure ==
    cmd.name = "detect_cycle" =>
        (out <=> InClosureOf(cmd.task_id, cmd.depends_on, Edges(log)))

\* C5 as amended: detect_cycle(a, b, tasks) is true exactly when the graph
\* with the edge a -> b added holds a cycle reachable from a; for a task set
\* without a cycle that is exactly when a = b or a is in the transitive
\* dependency closure of b.
C5_CycleReachable ==
    cmd.name = "detect_cycle" =>
        /\ out <=> CycleReachableFrom(cmd.task_id,
                       Edges(log) \cup {<<cmd.task_id, cmd.depends_on>>})
        /\ Acyclic(Edges(log)) =>
              (out <=> InClosureOf(cmd.task_id, cmd.depends_on, Edges(log)))

\* a cycle found through a path of two edges in a graph without a cycle
C5_Witness ==
    /\ cmd.name = "detect_cycle"
    /\ out = TRUE
    /\ Acyclic(Edges(log))
    /\ cmd.task_id # cmd.depends_on
    /\ <<cmd.depends_on, cmd.task_id>> \notin Edges(log)

\* C8: the ready view holds a task iff its status is open and every id in
\* its dependencies is the id of a live task whose status is closed.
C8_ReadyView ==
    cmd.name = "ready" =>
        /\ \A k, m \in 1..Len(out) : out[k].id = out[m].id => k = m
        /\ \A id \in IdsIn(log) :
              (\E k \in 1..Len(out) : out[k] = LiveData(log, id))
              <=> /\ LiveData(log, id).status = "open"
                  /\ \A d \in SeqToSet(LiveData(log, id).dependencies) :
                        /\ d \in IdsIn(log)
                        /\ LiveData(log, d).status = "closed"
        /\ \A k \in 1..Len(out) : out[k].id \in IdsIn(log)

\* a ready view with a task whose dependency is closed, taken while an open
\* task that depends only on an id of no task is left out
C8_Witness ==
    /\ cmd.name = "ready"
    /\ \E k \in 1..Len(out) : out[k].dependencies # <<>>
    /\ \E id \in IdsIn(log) :
          /\ LiveData(log, id).status = "open"
          /\ LiveData(log, id).dependencies # <<>>
          /\ \A d \in SeqToSet(LiveData(log, id).dependencies) : d \notin IdsIn(log)
          /\ \A k \in 1..Len(out) : out[k].id # id

----------------------------------------------------------------------------
(* Claims on the life of a task (SpecLife) *)

\* the positions of the records a step appended to the log
Appended == (Len(log) + 1)..Len(log')

\* the task a command loaded for an appended record: its live revision in
\* the log before the step
LoadedFor(k) == LiveData(log, log'[k].data.id)

----------------------------------------------------------------------------
(* Claims on the dependency commands (SpecDeps) *)

\* C6: dep add of an edge that detect_cycle flags appends no record: the
\* log, and with it every task's dependencies, is as before.
C6_CycleRejectedWithoutWrite ==
    [][(/\ cmd'.name = "dep add"
        /\ \E order \in Orders(TaskIds) :
              detect_cycle(cmd'.task_id, cmd'.depends_on_id,
                           load_tasks(fileExists, log).tasks, order))
       => /\ log' = log
          /\ fileExists' = fileExists
          /\ \A id \in IdsIn(log) :
                LiveData(log', id).dependencies = LiveData(log, id).dependencies]_vars

\* a dep add between two tasks refused for the cycle it would close
C6_Witness ==
    /\ cmd.name = "dep add"
    /\ out.message = "Error: Adding this dependency would create a cycle"
    /\ cmd.task_id # cmd.depends_on_id
    /\ <<cmd.depends_on_id, cmd.task_id>> \in Edges(log)

\* C7: dep add of an edge that is present and dep remove of an edge that is
\* absent append nothing; running dep add (dep remove) again with the same
\* arguments right after it ran leaves the log as the first run left it.
C7_DepAddRemoveIdempotent ==
    [][/\ (/\ cmd'.name = "dep add"
           /\ cmd'.task_id \in IdsIn(log)
           /\ cmd'.depends_on_id \in
                  SeqToSet(LiveData(log, cmd'.task_id).dependencies))
          => log' = log
       /\ (/\ cmd'.name = "dep remove"
           /\ cmd'.task_id \in IdsIn(log)
           /\ cmd'.depends_on_id \notin
                  SeqToSet(LiveData(log, cmd'.task_id).dependencies))
          => log' = log
       /\ cmd'.name = "dep add" =>
             \A order \in Orders(TaskIds) :
                 add_dependency(fileExists', log', cmd'.task_id,
                                cmd'.depends_on_id, order, clock').lines = log'
       /\ cmd'.name = "dep remove" =>
             remove_dependency(fileExists', log', cmd'.task_id,
                               cmd'.depends_on_id, clock').lines = log']_vars

\* a dep add repeated: the edge is there and nothing is appended
C7_Witness ==
    /\ cmd.name = "dep add"
    /\ out.message = "Dependency already exists"
    /\ <<cmd.task_id, cmd.depends_on_id>> \in Edges(log)

----------------------------------------------------------------------------
(* Claims on the order and the repetition of clean (SpecStore) *)

\* the records of the lines are in ascending order of id, without a blank
\* line among them
AscendingById(lines) ==
    /\ \A i \in 1..Len(lines) : lines[i].kind = "json"
    /\ \A i, j \in 1..Len(lines) : i < j => lines[i].data.id < lines[j].data.id

\* C11 as stated: after clean completes on a log that holds a record, the
\* records of the log file are in ascending order of id.
C11_CleanSortsEveryLog ==
    (cmd.name = "clean" /\ CountNonBlank(log) > 0) =>
        \A i, j \in JsonIdx(log) : i < j => log[i].data.id < log[j].data.id

\* C11 as amended: when clean removes at least one line it rewrites the
\* log as the live tasks in ascending order of id; when there is no line to
\* remove (or no task) it leaves the file as it is, in the order it has.
C11_CleanSortsWhenItRewrites ==
    [][cmd'.name = "clean" =>
          IF out'.message = "Cleaned log"
          THEN /\ AscendingById(log')
               /\ IdsIn(log') = IdsIn(log)
               /\ out'.removed_lines = CountNonBlank(log) - Len(log')
               /\ out'.removed_lines > 0
          ELSE /\ log' = log
               /\ CountNonBlank(log) = Cardinality(IdsIn(log))]_vars

\* a clean that rewrote a log of two tasks
C11_Witness ==
    /\ cmd.name = "clean"
    /\ out.message = "Cleaned log"
    /\ IdsIn(log) = TaskIds
    /\ AscendingById(log)

\* C12: clean run on the log a clean has just left reports no removed line
\* and leaves the file as it is.
C12_CleanIdempotent ==
    cmd.name = "clean" =>
        LET again == clean_log(fileExists, log)
        IN /\ again.lines = log
           /\ again.removed_lines = 0
           /\ out.message # "No tasks to clean" =>
                  again.message = "Log already clean"

\* the state a compacting clean left, on which the second clean is run
C12_Witness ==
    /\ cmd.name = "clean"
    /\ out.message = "Cleaned log"
    /\ out.removed_lines > 0
    /\ clean_log(fileExists, log).message = "Log already clean"

----------------------------------------------------------------------------
(* Claims on the steps of clean (SpecClean, SpecRace) *)

\* C13: when clean fails after it created the temporary file and before the
\* rename is done, the temporary file is removed and the log file holds
\* what it held when clean started.
C13_FailedCleanLeavesLog ==
    cleaner.pc = "failed" =>
        /\ ~cleaner.temp_exists
        /\ log = cleaner.before
        /\ fileExists

\* a clean that failed between two records of the temporary file
C13_Witness ==
    /\ cleaner.pc = "failed"
    /\ cmd.name = "clean step" /\ cmd.step = "fails"
    /\ Len(cleaner.temp) >= 1
    /\ Len(cleaner.temp) < Len(cleaner.tasks)
    /\ ~cleaner.temp_exists

\* C14: a reader that loads the log while clean runs, or after it, finds
\* the whole log as it was before the compaction or the whole compacted
\* log; until the rename it finds the log as it was.
C14_ReaderSeesWholeLog ==
    (cmd.name = "reader" /\ cleaner.pc # "idle") =>
        /\ \/ out.lines = cleaner.before
           \/ out.lines = WriteTemp(cleaner.tasks)
        /\ cleaner.pc \in {"loaded", "counted", "writing", "synced", "failed"}
              => out.lines = cleaner.before
        /\ TaskMap(out.tasks) = TaskMap(cleaner.tasks)

\* a read of the log while the temporary file holds one record of several
C14_Witness ==
    /\ cmd.name = "reader"
    /\ cleaner.pc = "writing"
    /\ cleaner.temp_exists
    /\ Len(cleaner.temp) >= 1
    /\ Len(cleaner.temp) < Len(cleaner.tasks)
    /\ out.lines = cleaner.before

\* C15: a record another process appended to the log after clean loaded
\* the tasks and before the rename is in no line of the log after the
\* rename, and clean reports its result as if nothing had happened.
C15_ConcurrentAppendLost ==
    [][(cleaner.pc = "synced" /\ cleaner'.pc = "done") =>
          /\ out'.message = "Cleaned log"
          /\ \A i \in (Len(cleaner.before) + 1)..Len(log) :
                \A j \in 1..Len(log') : log'[j] # log[i]]_vars

\* the log after the rename of a clean during which the only record ever
\* appended by the writer was written: the record is not there
C15_Witness ==
    /\ cmd.name = "clean step" /\ cmd.step = "replace"
    /\ out.message = "Cleaned log"
    /\ clock = 2
    /\ \A j \in JsonIdx(log) : log[j].data.title # "v3"

----------------------------------------------------------------------------
(* Claims on the log under all commands (SpecLog) *)

\* the commands that revise tasks already in the log
Revising == {"update", "start", "close", "cancel", "dep add", "dep remove"}

\* C16: the log is append-only for every command except clean: after
\* create, update, start, close, cancel, dep add, dep remove or import the
\* previous file content is an unchanged prefix of the new file content.
C16_AppendOnlyButClean ==
    [][cmd'.name # "clean" =>
          /\ Len(log) <= Len(log')
          /\ SubSeq(log', 1, Len(log)) = log
          /\ (fileExists => fileExists')]_vars

\* an update appended a second revision of task 1 after the first one,
\* which is still the first record of the log
C16_Witness ==
    /\ cmd.name = "update"
    /\ out.message = "Updated task"
    /\ Len(log) >= 2
    /\ log[1].data.id = 1
    /\ log[1].data.status = "open"
    /\ log[Len(log)].data.id = 1
    /\ log[Len(log)].data.status = "to_review"

\* C17: the id of a task never changes across revisions: update, start,
\* close, cancel, dep add, dep remove and clean only write records whose id
\* is already the id of a live task, so the set of live ids is changed only
\* by create and import, and never shrinks.
C17_IdsStable ==
    [][/\ IdsIn(log) \subseteq IdsIn(log')
       /\ (cmd'.name \notin {"create", "import"} => IdsIn(log') = IdsIn(log))
       /\ (cmd'.name \in Revising =>
              \A k \in Appended : log'[k].data.id \in IdsIn(log))
       /\ (cmd'.name = "clean" =>
              \A k \in JsonIdx(log') : log'[k].data.id \in IdsIn(log))]_vars

\* a dependency was added between two live tasks: the revision written has
\* the id of the task that was revised
C17_Witness ==
    /\ cmd.name = "dep add"
    /\ out.message = "Added dependency"
    /\ IdsIn(log) = {1, 2}
    /\ log[Len(log)].data.id = cmd.task_id
    /\ Cardinality(RecordsOf(log, cmd.task_id)) >= 2

----------------------------------------------------------------------------
(* Claims on Task.update_fields (SpecFields) *)

\* the call moves the status into closed from a non-closed status
IntoClosed(self, kwargs) ==
    /\ "status" \in DOMAIN kwargs
    /\ kwargs["status"] = "closed"
    /\ self.status # "closed"

\* C18: update_fields returns a new revision that differs from the task it
\* was derived from only in the fields named in the call, in updated_at (set
\* to the time of the call), and in closed_at when the call moves the status
\* into closed from a non-closed status; id, created_at and every other
\* unnamed field are copied unchanged, and the original task is not modified.
C18_UpdateFieldsFrame ==
    cmd.name = "update_fields" =>
        LET changed == {f \in Fields : cmd.result[f] # cmd.self[f]}
            allowed == DOMAIN cmd.kwargs \cup {"updated_at"}
                       \cup (IF IntoClosed(cmd.self, cmd.kwargs)
                             THEN {"closed_at"} ELSE {})
        IN /\ changed \subseteq allowed
           /\ cmd.result.updated_at = cmd.now
           /\ cmd.result.id = cmd.self.id
           /\ cmd.result.created_at = cmd.self.created_at
           /\ (IntoClosed(cmd.self, cmd.kwargs) =>
                   cmd.result.closed_at = Some(cmd.now))
           /\ \A f \in DOMAIN cmd.kwargs : cmd.result[f] = cmd.kwargs[f]
           /\ out = cmd.self

\* a task that was closed and reopened is closed again: status, updated_at
\* and closed_at change, nothing else does
C18_Witness ==
    /\ cmd.name = "update_fields"
    /\ cmd.kwargs = [status |-> "closed"]
    /\ cmd.self.status = "open"
    /\ cmd.self.closed_at # None
    /\ cmd.self.updated_at < cmd.now
    /\ {f \in Fields : cmd.result[f] # cmd.self[f]}
           = {"status", "updated_at", "closed_at"}

----------------------------------------------------------------------------
(* Claims on the dead-history warning (SpecWarn) *)

\* C19: in one process (one Storage object) the dead-history warning is
\* emitted at most once, however many times check_dead_history is called
\* and whatever loads happen between the calls.
C19_WarnedAtMostOnce == Len(stderr) <= 1

\* check_dead_history was called after the warning had been emitted, with a
\* ratio still above the threshold, and stayed silent
C19_Witness ==
    /\ cmd.name = "check_dead_history"
    /\ ~out.warned
    /\ Len(stderr) = 1
    /\ storage.dead_history_warned
    /\ Exceeds(dead_history_ratio(storage), config.dead_history_threshold)

\* C20: check_dead_history emits the warning only when the dead-history
\* ratio strictly exceeds the configured threshold: with the ratio equal to
\* the threshold, or below it, no warning is emitted.
C20_WarnsOnlyAboveThreshold ==
    [][cmd'.name = "check_dead_history" =>
          LET ratio     == dead_history_ratio(storage)
              threshold == config.dead_history_threshold
          IN (out'.warned \/ stderr' # stderr) =>
                 ratio[1] * threshold[2] > threshold[1] * ratio[2]]_vars

\* check_dead_history was called with a ratio of one third under a threshold
\* of one third, before any warning, and emitted nothing
C20_Witness ==
    /\ cmd.name = "check_dead_history"
    /\ ~out.warned
    /\ stderr = <<>>
    /\ ~storage.dead_history_warned
    /\ config.dead_history_threshold = <<1, 3>>
    /\ storage.total_lines = 3
    /\ storage.unique_count = 2

----------------------------------------------------------------------------
(* Claims on create and the id generator (SpecDeps, SpecIds) *)

\* C21: get_next_id returns an id that differs from every id in the log at
\* the time of the call, so in any single-process sequence of commands a
\* successful create adds exactly one new live task and never overwrites an
\* existing task.
C21_CreateAddsOneNewTask ==
    [][(cmd'.name = "create" /\ out'.message = "Created task") =>
          /\ Len(log') = Len(log) + 1
          /\ SubSeq(log', 1, Len(log)) = log
          /\ log'[Len(log')].kind = "json"
          /\ log'[Len(log')].data.id \notin IdsIn(log)
          /\ IdsIn(log') = IdsIn(log) \cup {log'[Len(log')].data.id}
          /\ \A id \in IdsIn(log) : LiveData(log', id) = LiveData(log, id)]_vars

\* a second task was created beside a task that already had two revisions
C21_Witness ==
    /\ cmd.name = "create"
    /\ out.message = "Created task"
    /\ Len(log) >= 3
    /\ IdsIn(log) = {1, 2}
    /\ Cardinality(RecordsOf(log, log[Len(log)].data.id)) = 1

\* the index of the first candidate of a stream that is not an existing id,
\* 0 when none of the first n is
RECURSIVE FirstFree(_, _, _, _)
FirstFree(draws, existing, i, n) ==
    IF i > n THEN 0
    ELSE IF draws[i] \notin existing THEN i
    ELSE FirstFree(draws, existing, i + 1, n)

\* C22: id generation draws at most 10 candidates: it returns the first
\* candidate not in the existing ids, and when all 10 candidates collide it
\* fails with an error, in which case create appends nothing to the log.
C22_TenCandidates ==
    [][cmd'.name = "create" =>
          LET first == FirstFree(cmd'.draws, IdsIn(log), 1, Attempts)
          IN IF first = 0
             THEN /\ log' = log
                  /\ fileExists' = fileExists
                  /\ out'.message = "Error: Failed to generate unique ID"
             ELSE /\ Len(log') = Len(log) + 1
                  /\ log'[Len(log')].data.id = cmd'.draws[first]
                  /\ out'.message = "Created task"]_vars

\* ten candidates collided and create failed, though the candidate after
\* them was an id of no task
C22_Witness ==
    /\ cmd.name = "create"
    /\ out.message = "Error: Failed to generate unique ID"
    /\ log # <<>>
    /\ \A i \in 1..Attempts : cmd.draws[i] \in IdsIn(log)
    /\ cmd.draws[Attempts + 1] \notin IdsIn(log)

\* the tenth candidate was the first free one and became the id
C22_WitnessLastAttempt ==
    /\ cmd.name = "create"
    /\ out.message = "Created task"
    /\ Len(log) >= 2
    /\ cmd.draws[Attempts] = log[Len(log)].data.id
    /\ \A i \in 1..(Attempts - 1) : cmd.draws[i] # log[Len(log)].data.id

----------------------------------------------------------------------------
(* Claims on a log with an invalid line (SpecBad) *)

\* the commands that use the log
LogCommands ==
    {"create", "update", "start", "close", "cancel", "dep add", "dep remove",
     "clean", "import"}

\* C23: if any non-blank line of the log is not a valid task record,
\* load_tasks fails as a whole (no partial result is returned), and every
\* log-using command (create, update, start, close, cancel, dep add, dep
\* remove, clean, import) ends without appending to or rewriting the log.
C23_InvalidLineFailsLoad ==
    [][(fileExists /\ \E i \in 1..Len(log) : ~ValidLine(log[i])) =>
          /\ (cmd'.name = "load_tasks" =>
                 /\ cmd'.raised
                 /\ out' = <<>>
                 /\ storage' = storage)
          /\ (cmd'.name \in LogCommands =>
                 /\ log' = log
                 /\ fileExists' = fileExists
                 /\ storage' = NewStorage)]_vars

\* clean ended with the error on a log of two equal records and a third
\* with an unknown key, and left the three lines
C23_Witness ==
    /\ cmd.name = "clean"
    /\ out.message = LoadError
    /\ Len(log) = 3
    /\ log[1] = log[2]
    /\ ValidLine(log[1])
    /\ log[1].kind = "json"
    /\ log[3].kind = "json"
    /\ "foo" \in DOMAIN log[3].data

----------------------------------------------------------------------------
(* Claims on close and cancel (SpecBatch) *)

\* the step is a close or a cancel that was given ids and no --review
ByIds == cmd'.name \in {"close", "cancel"} /\ ~cmd'.review /\ cmd'.ids # <<>>

\* the step is a close or a cancel that was given --review and no ids
InReviewMode == cmd'.name \in {"close", "cancel"} /\ cmd'.review /\ cmd'.ids = <<>>

\* the ids of a list that are, or are not, ids of the log
Resolving(ids, lines) == SelectSeq(ids, LAMBDA id : id \in IdsIn(lines))

NotResolving(ids, lines) == SelectSeq(ids, LAMBDA id : id \notin IdsIn(lines))

NoteFor(reason) ==
    IF reason \in {None, Some("")} THEN <<"Canceled">>
    ELSE <<"Canceled, with reason: ", reason[1]>>

\* C25: cancel sets status to closed and sets notes to the cancel note
\* ("Canceled", or "Canceled, with reason: X" when a reason X is given) when
\* the task had empty notes, and to the previous notes followed by a newline
\* and the cancel note otherwise; the previous notes are always kept as a
\* prefix.
C25_CancelNote ==
    [][cmd'.name = "cancel" =>
          \A k \in Appended :
              LET old == LoadedFor(k)
                  new == log'[k].data
              IN /\ new.status = "closed"
                 /\ new.notes = IF old.notes = <<>>
                                THEN <<NoteFor(cmd'.reason)>>
                                ELSE old.notes \o <<NoteFor(cmd'.reason)>>
                 /\ Len(new.notes) >= Len(old.notes)
                 /\ SubSeq(new.notes, 1, Len(old.notes)) = old.notes]_vars

\* task 1, which had one line of notes, was canceled with reason r: its
\* notes are the line it had and the cancel note with the reason
C25_Witness ==
    /\ cmd.name = "cancel"
    /\ cmd.reason = Some("r")
    /\ cmd.ids = <<1>>
    /\ Len(log) >= 2
    /\ log[Len(log)].data.id = 1
    /\ log[Len(log)].data.status = "closed"
    /\ log[Len(log)].data.notes
           = << <<"n">>, <<"Canceled, with reason: ", "r">> >>

\* task 1, which had no notes, was canceled without a reason
C25_WitnessEmptyNotes ==
    /\ cmd.name = "cancel"
    /\ cmd.reason = None
    /\ cmd.ids = <<1>>
    /\ Len(log) = 2
    /\ log[1].data.notes = <<>>
    /\ log[2].data.id = 1
    /\ log[2].data.notes = << <<"Canceled">> >>

\* the ids of the live tasks of a log whose status is to_review
ReviewIds(lines) ==
    {id \in IdsIn(lines) : LiveData(lines, id).status = "to_review"}

C26_WitnessNothingInReview ==
    /\ cmd.name \in {"close", "cancel"}
    /\ cmd.review
    /\ cmd.ids = <<>>
    /\ out.message = "No tasks found in to_review status"
    /\ Len(log) = 1
    /\ log[1].data.status = "open"

C27_WitnessNeither ==
    /\ cmd.name \in {"close", "cancel"}
    /\ ~cmd.review
    /\ cmd.ids = <<>>
    /\ out.message = "Error: Must specify either"
    /\ ReviewIds(log) # {}

----------------------------------------------------------------------------
(* Claims on the list and ready views (SpecViews) *)

\* C28: the list and ready views return their tasks sorted ascending by
\* priority with ties broken by ascending id; since ids are unique the order
\* is total and the same task set always produces the same sequence, e.g.
\* (2,tl-5), (0,tl-9), (0,tl-2) gives tl-2, tl-9, tl-5.
C28_ViewsSorted ==
    cmd.name \in {"list", "ready"} =>
        \A i, j \in 1..Len(out) :
            i < j => \/ out[i].priority < out[j].priority
                     \/ /\ out[i].priority = out[j].priority
                        /\ out[i].id < out[j].id

\* the log holds (2, id 2), (0, id 3), (0, id 1) in that order and list
\* returned ids 1, 3, 2
C28_Witness ==
    /\ cmd.name = "list"
    /\ [k \in 1..3 |-> <<log[k].data.priority, log[k].data.id>>]
           = << <<2, 2>>, <<0, 3>>, <<0, 1>> >>
    /\ [k \in 1..Len(out) |-> out[k].id] = <<1, 3, 2>>

\* ready returned three open tasks of the same log order, sorted
C28_WitnessReady ==
    /\ cmd.name = "ready"
    /\ [k \in 1..3 |-> <<log[k].data.priority, log[k].data.id>>]
           = << <<2, 2>>, <<0, 3>>, <<0, 1>> >>
    /\ [k \in 1..Len(out) |-> out[k].id] = <<1, 3, 2>>

\* a live task passes the filters an args of list gives
Passes(task, args) ==
    /\ (args.status # None => task.status = args.status[1])
    /\ (args.type # None => task.type = args.type[1])
    /\ (args.assignee # None => task.assignee = args.assignee)
    /\ (args.label # None => args.label[1] \in SeqToSet(task.labels))
    /\ ((args.status = None /\ ~args.all) =>
            task.status \in {"open", "in_progress"})

\* C29: list returns exactly the tasks that match every filter given among
\* status, type, assignee and label (an absent filter passes everything);
\* when no status filter is given and show-all is not requested, the result
\* is additionally restricted to tasks whose status is open or in_progress.
C29_ListFilters ==
    cmd.name = "list" =>
        /\ {out[k] : k \in 1..Len(out)}
               = {LiveData(log, id) : id \in
                     {id \in IdsIn(log) : Passes(LiveData(log, id), cmd.args)}}
        /\ \A i, j \in 1..Len(out) : out[i].id = out[j].id => i = j

\* list --status closed without --all returned the closed tasks of a log
\* that also holds an open one
C29_Witness ==
    /\ cmd.name = "list"
    /\ cmd.args.status = Some("closed")
    /\ ~cmd.args.all
    /\ cmd.args.type = None
    /\ Len(out) = 2
    /\ \E id \in IdsIn(log) : LiveData(log, id).status = "open"

\* list with the three other filters returned the one task that passes all
\* three, of a log with a task that passes two of them
C29_WitnessAllFilters ==
    /\ cmd.name = "list"
    /\ cmd.args.all
    /\ cmd.args.type = Some("task")
    /\ cmd.args.label = Some("y")
    /\ Len(out) = 1
    /\ \E id \in IdsIn(log) :
          /\ LiveData(log, id).type = "bug"
          /\ LiveData(log, id).assignee = Some("bob")

\* list without options returned the open and in_progress tasks only
C29_WitnessDefault ==
    /\ cmd.name = "list"
    /\ cmd.args.status = None /\ ~cmd.args.all
    /\ cmd.args.type = None /\ cmd.args.assignee = None /\ cmd.args.label = None
    /\ Len(out) = 2
    /\ {out[k].status : k \in 1..Len(out)} = {"open", "in_progress"}

----------------------------------------------------------------------------
(* Claims on import (SpecImport) *)

\* the lines of a beads file that are not blank: each has one entry in the
\* details of the run, in this order
NonBlank(lines) == SelectSeq(lines, LAMBDA l : l.kind # "blank")

\* a line of a beads file is a record import can convert
Converts(line) == line.kind = "json" /\ convert_beads_task(line.data, 0).ok

\* the n-th record of a run collides: its id is the id of a task of the log
\* before the run, or of a record the run reported as imported before it
Collides(records, details, n, lines) ==
    /\ Converts(records[n])
    /\ \/ records[n].data.id[1] \in IdsIn(lines)
       \/ \E m \in 1..(n - 1) :
             /\ Converts(records[m])
             /\ records[m].data.id = records[n].data.id
             /\ details[m].status = "imported"

\* C30: import never overwrites: a record whose id is already the id of a
\* live task, or of a record imported earlier in the same run, is skipped
\* and counted as skipped, nothing is appended for it, and the existing task
\* is unchanged after the import.
C30_ImportNeverOverwrites ==
    [][cmd'.name = "import" =>
          LET records == NonBlank(cmd'.lines)
              details == out'.details
              colliding == {n \in 1..Len(records) :
                               Collides(records, details, n, log)}
          IN /\ Len(details) = Len(records)
             /\ \A n \in colliding : details[n].status = "skipped"
             /\ out'.stats.skipped = Cardinality(colliding)
             /\ SubSeq(log', 1, Len(log)) = log
             /\ \A k \in Appended :
                   /\ log'[k].data.id \notin IdsIn(log)
                   /\ \A j \in Appended : log'[j].data.id = log'[k].data.id => j = k
             /\ \A id \in IdsIn(log) : LiveData(log', id) = LiveData(log, id)]_vars

\* no progress line of the run raises: the run is in JSON mode, or every
\* record of the file that converts has a title with a length
Prints(c) ==
    c.json \/ \A k \in 1..Len(c.lines) :
                 Converts(c.lines[k]) => HasLen(c.lines[k].data.title[1])

\* the part of C30 that holds of every run: what a run without dry_run
\* whose progress lines print reports, and that no run changes a task of
\* the log
C30_RealImportNeverOverwrites ==
    [][cmd'.name = "import" =>
          LET records == NonBlank(cmd'.lines)
              details == out'.details
              colliding == {n \in 1..Len(records) :
                               Collides(records, details, n, log)}
          IN /\ (~cmd'.dry_run /\ Prints(cmd') =>
                    /\ Len(details) = Len(records)
                    /\ \A n \in colliding : details[n].status = "skipped"
                    /\ out'.stats.skipped = Cardinality(colliding))
             /\ SubSeq(log', 1, Len(log)) = log
             /\ \A k \in Appended :
                   /\ log'[k].data.id \notin IdsIn(log)
                   /\ \A j \in Appended : log'[j].data.id = log'[k].data.id => j = k
             /\ \A id \in IdsIn(log) : LiveData(log', id) = LiveData(log, id)]_vars

\* a run without dry_run on a store holding task 1 read two records of id
\* 2: the first was imported, the second was skipped
C30_WitnessRealRun ==
    /\ cmd.name = "import"
    /\ ~cmd.dry_run
    /\ cmd.lines = <<BeadsRecord(2, "closed"), BeadsRecord(2, "closed")>>
    /\ out.stats.imported = 1
    /\ out.stats.skipped = 1
    /\ Len(log) = 2
    /\ log[1].data.title = "t"
    /\ log[2].data.id = 2

\* a dry run read two records of id 2, which is the id of no task, and
\* reported both as imported
C30_WitnessDryRun ==
    /\ cmd.name = "import"
    /\ cmd.dry_run
    /\ cmd.lines = <<BeadsRecord(2, "closed"), BeadsRecord(2, "closed")>>
    /\ out.stats.imported = 2
    /\ out.stats.skipped = 0
    /\ 2 \notin IdsIn(log)

\* a run without dry_run on a store holding task 1 read a record of id 1:
\* it was skipped and task 1 has the title it had
C30_WitnessLiveTask ==
    /\ cmd.name = "import"
    /\ ~cmd.dry_run
    /\ cmd.lines = <<BeadsRecord(1, "open")>>
    /\ out.stats.skipped = 1
    /\ out.details[1].status = "skipped"
    /\ Len(log) = 1
    /\ log[1].data.title = "t"

----------------------------------------------------------------------------
(* Import: the mapping of status, issue_type and priority                  *)

TicketStatuses == {"open", "closed", "in_progress", "to_review"}
TicketTypes == {"task", "bug", "feature", "epic", "chore"}

\* the warnings of a conversion that name the value v after the words w
Naming(warnings, w, v) ==
    {i \in 1..Len(warnings) : warnings[i][1] = w /\ warnings[i][2] = v}

\* the warnings of a conversion that start with the words w
Starting(warnings, w) ==
    {i \in 1..Len(warnings) : warnings[i][1] = w}

\* the priority of a record as a number of tenths, None when it is no number
Tenths(priority) ==
    IF priority.kind = "int" THEN Some(10 * priority.value)
    ELSE IF priority.kind = "float" THEN Some(priority.tenths)
    ELSE IF priority.kind = "str" /\ priority.value = "3" THEN Some(30)
    ELSE None

\* whether a value was mapped to `to`, with exactly one warning that
\* starts with the words w and names the value
Defaulted(mapped, to, warnings, w, value) ==
    /\ mapped = to
    /\ Cardinality(Naming(warnings, w, value)) = 1
    /\ Cardinality(Starting(warnings, w)) = 1

C31_WitnessUnknownStatus ==
    /\ cmd.name = "convert"
    /\ "status" \in DOMAIN cmd.beads_data
    /\ cmd.beads_data.status = "blocked"
    /\ "priority" \in DOMAIN cmd.beads_data
    /\ cmd.beads_data.priority = [kind |-> "float", tenths |-> 45]
    /\ out.ok
    /\ out.task.status = "open"
    /\ out.task.priority = 4
    /\ Len(out.warnings) >= 1

----------------------------------------------------------------------------
(* Import: the dry run                                                     *)

\* C32: an import run with dry_run set leaves the log file as it was,
\* whatever the beads file and the store: the same lines, and no file
\* where there was none.
C32_DryRunNeverWrites ==
    [][(cmd'.name = "import" /\ cmd'.dry_run)
          => (log' = log /\ fileExists' = fileExists)]_vars

\* a dry run has reported a record as imported whose id is not in the log
C32_Witness ==
    /\ cmd.name = "import"
    /\ cmd.dry_run
    /\ out.stats.imported >= 1
    /\ \E i \in 1..Len(out.details) :
          /\ out.details[i].status = "imported"
          /\ \A j \in 1..Len(log) : log[j].data.id # out.details[i].id

\* a dry run into a directory without a log file has reported an import
\* and there is still no log file
C32_WitnessNoFile ==
    /\ cmd.name = "import"
    /\ cmd.dry_run
    /\ out.stats.imported >= 1
    /\ ~fileExists

----------------------------------------------------------------------------
(* dep list: the tasks a task blocks                                       *)

\* C33: for every task and every set of tasks, the blocks list of dep list
\* holds exactly the live tasks whose dependencies contain the id of the
\* task, each once, and depends_on is the dependencies of the task; for an
\* id of no task the command reports that and lists nothing.
C33_BlockedBy ==
    cmd.name = "dep list" =>
        IF cmd.task_id \in IdsIn(log)
        THEN /\ out.output # None
             /\ out.output[1].task_id = cmd.task_id
             /\ out.output[1].depends_on = LiveData(log, cmd.task_id).dependencies
             /\ LET blocks == out.output[1].blocks
                IN /\ \A k, m \in 1..Len(blocks) : blocks[k] = blocks[m] => k = m
                   /\ SeqToSet(blocks) =
                         {id \in IdsIn(log) :
                             cmd.task_id \in SeqToSet(LiveData(log, id).dependencies)}
        ELSE /\ out.output = None
             /\ out.message = "Error: Task not found"

\* dep list of a task that two tasks depend on, one of them closed, and
\* that a third task does not depend on
C33_Witness ==
    /\ cmd.name = "dep list"
    /\ out.output # None
    /\ Len(out.output[1].blocks) = 2
    /\ \E id \in SeqToSet(out.output[1].blocks) :
          LiveData(log, id).status = "closed"
    /\ Cardinality(IdsIn(log)) = 3

\* dep list of a task that depends on itself: it blocks itself
C33_WitnessSelf ==
    /\ cmd.name = "dep list"
    /\ out.output # None
    /\ cmd.task_id \in SeqToSet(out.output[1].blocks)

----------------------------------------------------------------------------
(* The dependency graph under the commands: a log of up to three tasks     *)
(* whose dependency lists hold no cycle, then the commands, the clock      *)
(* leaving room for one write.                                            *)

InitAcyclic ==
    /\ fileExists = TRUE
    /\ \E r1 \in CycleRecords(1), r2 \in CycleRecords(2), r3 \in CycleRecords(3) :
          /\ log = r1 \o r2 \o r3
          /\ Acyclic(Edges(r1 \o r2 \o r3))
    /\ storage = NewStorage
    /\ cmd = [name |-> "init"]
    /\ out = <<>>
    /\ clock = MaxTime
    /\ Quiet

NextAcyclic ==
    \/ Create(LifeIds)
    \/ Update(LifeIds, ReviewOpts)
    \/ Start(LifeIds, {None})
    \/ Close(LifeIds)
    \/ Cancel(LifeIds, {None})
    \/ DepAddIn(GraphIds, {<<1, 2, 3>>, <<3, 2, 1>>})
    \/ DepRemove(GraphIds)
    \/ Import(BeadsFiles({2}), {FALSE})
    \/ CleanLog

SpecAcyclic == InitAcyclic /\ [][NextAcyclic]_vars

\* C34: from a log whose dependency graph holds no cycle, after any
\* sequence of create, update, start, close, cancel, dep add, dep remove,
\* clean and import, one at a time, the dependency graph of the live tasks
\* holds no cycle.
C34_StaysAcyclic == Acyclic(Edges(log))

\* dep add has refused the edge that would close the cycle 1 -> 2 -> 3 -> 1
C34_Witness ==
    /\ cmd.name = "dep add"
    /\ out.message = "Error: Adding this dependency would create a cycle"
    /\ cmd.task_id = 3
    /\ cmd.depends_on_id = 1
    /\ {<<1, 2>>, <<2, 3>>} \subseteq Edges(log)
    /\ <<1, 3>> \notin Edges(log)

\* dep add has added the edge that completes the chain 1 -> 2 -> 3
C34_WitnessAdded ==
    /\ cmd.name = "dep add"
    /\ out.message = "Added dependency"
    /\ cmd.task_id = 2
    /\ cmd.depends_on_id = 3
    /\ {<<1, 2>>, <<2, 3>>} \subseteq Edges(log)

----------------------------------------------------------------------------
(* Two dep add commands at once                                            *)

\* process p has read the log three times and read `lines` every time
ReadOnly(p, lines) ==
    /\ Len(procs[p].reads) = 3
    /\ \A k \in 1..3 : procs[p].reads[k] = lines

\* the two processes add the edges a -> b and b -> a, a # b, and both have
\* ended
Opposite ==
    /\ procs # NoProcs
    /\ procs[1].task_id # procs[1].depends_on_id
    /\ procs[1].task_id = procs[2].depends_on_id
    /\ procs[1].depends_on_id = procs[2].task_id
    /\ \A p \in Procs : procs[p].pc = "done"

\* C35: two dep add commands in separate processes, one adding a -> b and
\* the other b -> a between two live tasks that do not depend on each
\* other: when both have done all their reading of the log before either
\* appends, both say the dependency was added, the log is the one they
\* read plus one record of each, both edges are in the live graph, and
\* the live graph holds a cycle.
C35_BothEdgesAppended ==
    \A lines \in RaceLogs :
        (/\ Opposite
         /\ \A p \in Procs : ReadOnly(p, lines)
         /\ {1, 2} \subseteq IdsIn(lines)
         /\ Edges(lines) = {})
        => /\ \A p \in Procs : procs[p].message = "Added dependency"
           /\ Len(log) = Len(lines) + 2
           /\ SubSeq(log, 1, Len(lines)) = lines
           /\ {log[Len(lines) + 1].data.id, log[Len(lines) + 2].data.id} = {1, 2}
           /\ {<<1, 2>>, <<2, 1>>} \subseteq Edges(log)
           /\ ~Acyclic(Edges(log))

\* both processes read the log of two independent tasks before either
\* appended, and both have ended: the live graph holds 1 -> 2 and 2 -> 1
C35_Witness ==
    /\ Opposite
    /\ \E lines \in RaceLogs :
          /\ \A p \in Procs : ReadOnly(p, lines)
          /\ Edges(lines) = {}
          /\ {1, 2} \subseteq IdsIn(lines)
    /\ Edges(log) = {<<1, 2>>, <<2, 1>>}

\* one process ended before the other read anything: the second add was
\* refused and the live graph holds no cycle
C35_WitnessOneAtATime ==
    /\ Opposite
    /\ procs[1].message = "Added dependency"
    /\ procs[2].message = "Error: Adding this dependency would create a cycle"
    /\ Acyclic(Edges(log))

----------------------------------------------------------------------------
(* The commands that revise one task                                       *)

SingleCommands == {"update", "start", "dep add", "dep remove"}

\* what a command of SingleCommands says when it has saved a revision
SavedMessages ==
    {"Updated task", "Started task", "Added dependency", "Removed dependency"}

\* the id of the task a command of SingleCommands revises
TargetOf(c) == IF c.name \in {"update", "start"} THEN c.id ELSE c.task_id

\* C36: update, start, dep add and dep remove append exactly one record,
\* a record of the task they name, when they succeed, and leave the log as
\* it is when they do not; they do not succeed when the id of the task
\* (or, for dep add, the id depended on) is the id of no live task.
C36_OneRecordOrNone ==
    [][cmd'.name \in SingleCommands =>
          /\ IF out'.message \in SavedMessages
             THEN /\ Len(log') = Len(log) + 1
                  /\ SubSeq(log', 1, Len(log)) = log
                  /\ log'[Len(log')].kind = "json"
                  /\ log'[Len(log')].data.id = TargetOf(cmd')
             ELSE log' = log
          /\ (TargetOf(cmd') \notin IdsIn(log)
                 => log' = log /\ out'.message = "Error: Task not found")
          /\ (cmd'.name = "dep add" /\ cmd'.depends_on_id \notin IdsIn(log)
                 => log' = log /\ out'.message = "Error: Task not found")
      ]_vars

\* dep add of task 1 on task 2, an id of no task, has been refused, after
\* a start that appended a record: the log holds two records of task 1
C36_Witness ==
    /\ cmd.name = "dep add"
    /\ cmd.task_id = 1
    /\ cmd.depends_on_id = 2
    /\ out.message = "Error: Task not found"
    /\ IdsIn(log) = {1}
    /\ Len(log) = 2
    /\ log[2].data.status = "in_progress"

\* an update has appended one record with the parsed priority
C36_WitnessUpdate ==
    /\ cmd.name = "update"
    /\ out.message = "Updated task"
    /\ log[Len(log)].data.id = cmd.id
    /\ log[Len(log)].data.priority = 1

\* an update with a priority out of range has appended nothing
C36_WitnessInvalid ==
    /\ cmd.name = "update"
    /\ out.message = "Error: Invalid priority"

----------------------------------------------------------------------------
(* The ids in dependencies                                                 *)

\* C37: in every state reached from an empty log through create, update,
\* start, close, cancel, dep add, dep remove, clean and import, every id in
\* the dependencies of a live task is the id of a live task.
C37_DependenciesLive ==
    \A id \in IdsIn(log) :
        SeqToSet(LiveData(log, id).dependencies) \subseteq IdsIn(log)

\* task 1 depends on task 2, which an import brought in, and the last
\* command was a clean or a later command that kept the edge
C37_Witness ==
    /\ IdsIn(log) = {1, 2}
    /\ LiveData(log, 1).dependencies = <<2>>
    /\ cmd.name # "dep add"

\* dep add of task 1 on task 2 has been refused while task 2 is the id of
\* no task
C37_WitnessRefused ==
    /\ cmd.name = "dep add"
    /\ cmd.task_id = 1
    /\ cmd.depends_on_id = 2
    /\ IdsIn(log) = {1}
    /\ out.message = "Error: Task not found"

----------------------------------------------------------------------------
(* closed_at under the commands                                            *)

\* C38: in every state reached from an empty log through create, update,
\* start, close, cancel, dep add, dep remove and clean, every live task
\* whose status is closed has a closed_at that is not null; and once the
\* closed_at of a live task is not null it is not null after every later
\* step, whatever the status becomes.
C38_ClosedAtStays ==
    /\ [](\A id \in IdsIn(log) :
            LiveData(log, id).status = "closed"
                => LiveData(log, id).closed_at # None)
    /\ [][\A id \in IdsIn(log) :
            LiveData(log, id).closed_at # None
                => /\ id \in IdsIn(log')
                   /\ LiveData(log', id).closed_at # None]_vars

\* a task that was closed is open again and keeps its closed_at
C38_Witness ==
    /\ cmd.name = "update"
    /\ 1 \in IdsIn(log)
    /\ LiveData(log, 1).status = "open"
    /\ LiveData(log, 1).closed_at # None

\* a task closed by cancel, in a log that clean has rewritten
C38_WitnessCleaned ==
    /\ cmd.name = "clean"
    /\ out.removed_lines > 0
    /\ IdsIn(log) = {1}
    /\ LiveData(log, 1).status = "closed"
    /\ LiveData(log, 1).closed_at # None

----------------------------------------------------------------------------
(* Import: what a dry run reports                                          *)

\* what import_from_beads reports for a file on the log as it is now,
\* with or without dry_run
Reported(lines, dry_run) ==
    LET r == import_from_beads(fileExists, log, TRUE, lines, dry_run,
                               cmd.json, clock)
    IN [stats |-> r.stats, details |-> r.details]

\* the ids of the records of a file that convert, line by line
ConvertedIds(lines) ==
    [i \in {k \in 1..Len(lines) : Converts(lines[k])} |-> lines[i].data.id[1]]

\* no id is on two lines of the file that convert
NoRepeat(lines) ==
    \A i, j \in DOMAIN ConvertedIds(lines) :
        ConvertedIds(lines)[i] = ConvertedIds(lines)[j] => i = j

\* C39: for every beads file and store, an import with dry_run set
\* reports the same outcome for every record and the same imported,
\* skipped and error counts as an import without dry_run of the same file
\* into the same store, also when an id is on more than one line of the file.
C39_DryRunReportsSame ==
    (cmd.name = "import" /\ cmd.dry_run)
        => /\ out.stats = Reported(cmd.lines, FALSE).stats
           /\ out.details = Reported(cmd.lines, FALSE).details

\* the part of C39 the code keeps: the reports are the same when no id is
\* on two lines of the file that convert
C39_SameWithoutRepeats ==
    (cmd.name = "import" /\ cmd.dry_run /\ NoRepeat(cmd.lines))
        => /\ out.stats = Reported(cmd.lines, FALSE).stats
           /\ out.details = Reported(cmd.lines, FALSE).details

\* a dry run of a file with an id of no task on two lines has reported
\* two imports, where the import without dry_run reports one import and
\* one skip
C39_Witness ==
    /\ cmd.name = "import"
    /\ cmd.dry_run
    /\ ~NoRepeat(cmd.lines)
    /\ out.stats.imported = 2
    /\ out.stats.skipped = 0
    /\ Reported(cmd.lines, FALSE).stats.imported = 1
    /\ Reported(cmd.lines, FALSE).stats.skipped = 1

\* a dry run of a file of a record of a new id and a record of an id of
\* the log has reported what the import without dry_run reports
C39_WitnessSame ==
    /\ cmd.name = "import"
    /\ cmd.dry_run
    /\ NoRepeat(cmd.lines)
    /\ out.stats.imported = 1
    /\ out.stats.skipped = 1
    /\ out.stats = Reported(cmd.lines, FALSE).stats

----------------------------------------------------------------------------
(* Import: one outcome for every line                                      *)

\* the number of entries of the details with a status
CountOf(details, status) ==
    Cardinality({k \in 1..Len(details) : details[k].status = status})

\* a line of a beads file is no valid JSON, or a record without id or title
BadLine(line) ==
    \/ line.kind = "bad"
    \/ line.kind = "json" /\ (Falsy(line.data, "id") \/ Falsy(line.data, "title"))

\* every line of the file that is not blank has one entry in the details,
\* an error for a bad line, and the counters count these entries
OneOutcome(lines, stats, details) ==
    LET records == NonBlank(lines)
    IN /\ Len(details) = Len(records)
       /\ \A n \in 1..Len(records) :
             /\ details[n].status \in {"imported", "skipped", "error"}
             /\ BadLine(records[n]) => details[n].status = "error"
       /\ stats.total_lines = Len(records)
       /\ stats.imported = CountOf(details, "imported")
       /\ stats.skipped = CountOf(details, "skipped")
       /\ stats.errors = CountOf(details, "error")
       /\ stats.imported + stats.skipped + stats.errors = Len(records)

\* C40: import gives every non-blank line of the file exactly one outcome
\* and keeps going after a bad line: a line that is no valid JSON or lacks
\* id or title is counted as an error and the lines after it are still
\* processed, and at the end imported + skipped + errors is the number of
\* non-blank lines read.
C40_OneOutcomePerLine ==
    cmd.name = "import" => OneOutcome(cmd.lines, out.stats, out.details)

\* the part of C40 that holds of the code: the runs none of whose progress
\* lines raises give every non-blank line one outcome
C40_OneOutcomeWhenPrinted ==
    cmd.name = "import" /\ Prints(cmd) =>
        OneOutcome(cmd.lines, out.stats, out.details)

\* a run in text mode read a record whose title is a number and then text
\* that is no JSON: the record was saved and counted as imported and as an
\* error, so the counters add up to three for two lines
C40_Witness ==
    /\ cmd.name = "import"
    /\ ~cmd.json
    /\ ~cmd.dry_run
    /\ cmd.lines = <<[kind |-> "json",
                      data |-> [id |-> Some(2), title |-> Some("5")]],
                    [kind |-> "bad"]>>
    /\ out.stats = [total_lines |-> 2, imported |-> 1, skipped |-> 0,
                    errors |-> 2]
    /\ Len(out.details) = 3
    /\ 2 \in IdsIn(log)

\* a run read text that is no JSON and then a record: the first is counted
\* as an error, the second was imported
C40_WitnessKeepsGoing ==
    /\ cmd.name = "import"
    /\ cmd.lines = <<[kind |-> "bad"], BeadsRecord(1, "open")>>
    /\ out.stats = [total_lines |-> 2, imported |-> 1, skipped |-> 0,
                    errors |-> 1]
    /\ out.details[1].status = "error"
    /\ out.details[2].status = "imported"

\* the same file as in C40_Witness read in JSON mode: one outcome a line
C40_WitnessJson ==
    /\ cmd.name = "import"
    /\ cmd.json
    /\ cmd.lines = <<[kind |-> "json",
                      data |-> [id |-> Some(2), title |-> Some("5")]],
                    [kind |-> "bad"]>>
    /\ out.stats.total_lines = 2
    /\ out.stats.errors = 1
    /\ Len(out.details) = 2

====
